---- MODULE Spec2Model ----
(***************************************************************************)
(* Call-orchestration core of the restaurant voice agent backend:          *)
(*   - the customer store (csv_utils.py), a CSV file read and rewritten    *)
(*     whole on every update;                                              *)
(*   - the flow triggers (client_handler.py);                              *)
(*   - the scan job and the notification job (scheduler.py);               *)
(*   - the email path (phone_handler.py) and the HTTP detail endpoint      *)
(*     (app.py);                                                           *)
(*   - the completion wait and POST /customer (app.py), the webhook        *)
(*     outcome handler (client_handler.py) and the manual trigger          *)
(*     (main.py);                                                          *)
(*   - the call-provider adapter (phone_handler.py) and the scheduler's    *)
(*     start and stop (scheduler.py);                                      *)
(*   - store operations of concurrent tasks (csv_utils.py).                *)
(*                                                                         *)
(* Encoding of Python values:                                              *)
(*   - a CSV row is a function from column names to values, with exactly   *)
(*     the columns of the file header (csv.DictReader);                    *)
(*   - a timestamp string is a tuple: <<>> is the empty string,            *)
(*     <<"iso", t>> is the ISO text of minute t, <<"bad">> is text that    *)
(*     datetime.fromisoformat rejects.  Times are naive wall-clock         *)
(*     minutes: the code drops any UTC offset with replace(tzinfo=None);   *)
(*   - customer ids are the numbers 1..MaxCustomers (never empty, so the   *)
(*     `if customer_id` tests of the scan job always pass);                *)
(*   - call ids are the numbers 1..MaxCalls, Str(id) is str(call_id);      *)
(*   - None is the string NoneValue, which no Python string is encoded as; *)
(*   - a Python dict is a function whose domain is its set of keys.        *)
(***************************************************************************)
EXTENDS Integers, Sequences, FiniteSets, TLC

VARIABLES
    csv_file,           \* customers.csv: [header, rows]
    now,                \* wall clock, minutes (datetime.now())
    scan,               \* scan_and_trigger_calls: [pc, queue, tick, aborted]
    posts,              \* POST /make-call/ requests of the current scan tick
    triggered,          \* <<customer_id, flow>> triggers invoked in the tick
    tick_start,         \* rows of the file when the current tick began
    no_show_seen,       \* rows of the file when the tick's no_show query ran
    arrival_seen,       \* rows of the file when the tick's arrival query ran
    prev_failed,        \* <<customer_id, flow>> whose POST failed last tick
    recovery_calls,     \* customer id -> times of the scan job's recovery POSTs
    sent_emails_cache,  \* scheduler.sent_emails_cache
    provider,           \* call provider: call id -> [listed, detail]
    notify,             \* check_and_send_reservation_emails: [pc, queue]
    emails,             \* emails handed to SMTP and accepted
    job_result,         \* call id -> outcome of the job's last look at it
    tick_fetched,       \* call ids whose detail the job fetched this tick
    tick_sent,          \* call ids the job passed to send_reservation_email this tick
    cache_at_begin,     \* sent_emails_cache when the current tick began
    requests,           \* HTTP requests served so far
    wait,               \* wait_for_call_completion and its caller
    api,                \* the last request served by a handler, and its answer
    sched,              \* scheduler.scheduler (AsyncIOScheduler) and its job runs
    store_ops           \* csv_utils operations in progress in concurrent tasks

vars == <<csv_file, now, scan, posts, triggered, tick_start, no_show_seen,
          arrival_seen, prev_failed, recovery_calls, sent_emails_cache, provider,
          notify,
          emails, job_result, tick_fetched, tick_sent, cache_at_begin, requests,
          wait, api, sched, store_ops>>

scanVars == <<csv_file, now, scan, posts, triggered, tick_start,
              no_show_seen, arrival_seen, prev_failed, recovery_calls>>

notifyVars == <<sent_emails_cache, provider, notify, emails, job_result,
                tick_fetched, tick_sent, cache_at_begin, requests>>

apiVars == <<wait, api, sched, store_ops>>

(***************************************************************************)
(* Bounds of the model and constants of the program.                       *)
(***************************************************************************)
MaxCustomers == 2
MaxTicks == 2
MaxCalls == 2
MaxRequests == 1
MaxPolls == 3
MaxTimeout == 2
GapTicks == 7

RecallGapMinutes == 30
ScanIntervalMinutes == 5

CustomerIds == 1..MaxCustomers
CallIds == 1..MaxCalls

\* The scan job has placed no recovery call yet.
NoRecoveryCalls == [c \in CustomerIds |-> {}]

(***************************************************************************)
(* csv_utils.py: the customer store.                                       *)
(***************************************************************************)
CSV_COLUMNS == {"customer_id", "name", "mobile", "email", "timestamp",
                "admin_token"}

\* Columns the flow code reads and updates but CSV_COLUMNS does not list.
\* A file that carries them was not written by write_customers.
FlowColumns == {"status", "expected_arrival_time", "arrival_confirmed",
                "last_call_time"}

\* Python's None.
NoneValue == "<None>"

\* dict.get(k, default)
Get(d, k, default) == IF k \in DOMAIN d THEN d[k] ELSE default

\* The empty string in the encoding of column col.
Blank(col) == IF col \in {"timestamp", "expected_arrival_time", "last_call_time"}
              THEN <<>> ELSE ""

read_customers(f) == f.rows

\* Mutant: every column of the record is written back.
ProjectRow_AllColumns(customer) == customer

\* A text value after csv.DictWriter wrote it and csv.DictReader read it
\* back: None is written as the empty field, and the file is read with
\* universal newlines, which turn a carriage return inside a field into a
\* line feed.  Every other text of the model comes back as it was.
CsvText(v) ==
    CASE v = NoneValue -> ""
      [] v = "b\rc"    -> "b\nc"
      [] OTHER         -> v

CsvField(col, v) ==
    IF col \in {"name", "mobile", "email", "admin_token"} THEN CsvText(v) ELSE v

ProjectRow(customer) ==
    [col \in CSV_COLUMNS |-> CsvField(col, Get(customer, col, Blank(col)))]

write_customers(customers) ==
    [header |-> CSV_COLUMNS,
     rows   |-> [i \in 1..Len(customers) |-> ProjectRow(customers[i])]]

\* Index of the first row with this customer_id, 0 when there is none.
IndexOfId(rows, customer_id) ==
    IF \E i \in 1..Len(rows) : rows[i]["customer_id"] = customer_id
    THEN CHOOSE i \in 1..Len(rows) :
            /\ rows[i]["customer_id"] = customer_id
            /\ \A j \in 1..(i - 1) : rows[j]["customer_id"] # customer_id
    ELSE 0

\* dict.update(updates)
DictUpdate(d, updates) ==
    [k \in (DOMAIN d) \cup (DOMAIN updates) |->
        IF k \in DOMAIN updates THEN updates[k] ELSE d[k]]

\* Mutant: the updated record is added to the file, the old one kept.
update_customer_Append(f, customer_id, updates) ==
    LET customers == read_customers(f)
        i == IndexOfId(customers, customer_id)
    IN  IF i = 0 THEN f
        ELSE write_customers(Append(customers, DictUpdate(customers[i], updates)))

update_customer(f, customer_id, updates) ==
    LET customers == read_customers(f)
        i == IndexOfId(customers, customer_id)
    IN  IF i = 0 THEN f
        ELSE write_customers([customers EXCEPT ![i] = DictUpdate(@, updates)])

get_customers_by_status(f, status) ==
    LET Keep(c) == Get(c, "status", "") = status
    IN  SelectSeq(read_customers(f), Keep)

\* datetime.fromisoformat succeeds exactly on <<"iso", t>> and yields t.
IsIso(s) == Len(s) = 2 /\ s[1] = "iso"
fromisoformat(s) == s[2]
isoformat(t) == <<"iso", t>>

get_customers_for_arrival_check(f, t) ==
    LET Keep(c) ==
            LET expected_time_str == Get(c, "expected_arrival_time", <<>>)
            IN  /\ Len(expected_time_str) > 0
                /\ IsIso(expected_time_str)
                /\ fromisoformat(expected_time_str) < t
    IN  SelectSeq(read_customers(f), Keep)

(***************************************************************************)
(* client_handler.py: the flow triggers.  resp is the provider's answer to *)
(* POST /make-call/ ("200", "500", or "timeout" for a transport error) and *)
(* t the wall clock.  Each operator yields the file after the call, the    *)
(* result's success flag and the POST requests it made.                    *)
(***************************************************************************)
ProviderResponses == {"200", "500", "timeout"}

Rejected(f, error) ==
    [file |-> f, success |-> FALSE, error |-> error, posts |-> <<>>]

\* Mutant: the trigger sends the POST without stamping last_call_time.
trigger_call_NoStamp(f, customer_id, call_flow, resp, t) ==
    LET i == IndexOfId(read_customers(f), customer_id)
    IN  IF i = 0 THEN Rejected(f, "Customer not found")
        ELSE IF Get(read_customers(f)[i], "mobile", "") = ""
        THEN Rejected(f, "Mobile number not found")
        ELSE [file    |-> f,
              success |-> resp = "200",
              error   |-> IF resp = "200" THEN "" ELSE "provider",
              posts   |-> <<[customer_id |-> customer_id,
                             call_flow   |-> call_flow,
                             success     |-> resp = "200"]>>]

\* Mutant: last_call_time is stamped before the mobile number is tested.
trigger_call_StampsFirst(f, customer_id, call_flow, resp, t) ==
    LET i == IndexOfId(read_customers(f), customer_id)
        stamped == update_customer(f, customer_id,
                                   [last_call_time |-> isoformat(t)])
    IN  IF i = 0 THEN Rejected(f, "Customer not found")
        ELSE IF Get(read_customers(f)[i], "mobile", "") = ""
        THEN Rejected(stamped, "Mobile number not found")
        ELSE [file    |-> stamped,
              success |-> resp = "200",
              error   |-> IF resp = "200" THEN "" ELSE "provider",
              posts   |-> <<[customer_id |-> customer_id,
                             call_flow   |-> call_flow,
                             success     |-> resp = "200"]>>]

trigger_call(f, customer_id, call_flow, resp, t) ==
    LET i == IndexOfId(read_customers(f), customer_id)
    IN  IF i = 0 THEN Rejected(f, "Customer not found")
        ELSE IF Get(read_customers(f)[i], "mobile", "") = ""
        THEN Rejected(f, "Mobile number not found")
        ELSE [file    |-> update_customer(f, customer_id,
                              [last_call_time |-> isoformat(t)]),
              success |-> resp = "200",
              error   |-> IF resp = "200" THEN "" ELSE "provider",
              posts   |-> <<[customer_id |-> customer_id,
                             call_flow   |-> call_flow,
                             success     |-> resp = "200"]>>]

\* Mutant: the trigger applies the outcome order_confirmed to the record
\* as soon as the call is placed.
trigger_order_booking_call_AppliesOutcome(f, customer_id, resp, t) ==
    LET i == IndexOfId(read_customers(f), customer_id)
    IN  IF i = 0 \/ Get(read_customers(f)[i], "status", "None") # "new"
        THEN Rejected(f, "Invalid customer status for order booking")
        ELSE LET result == trigger_call(f, customer_id, "order_booking", resp, t)
             IN  IF result.success
                 THEN [result EXCEPT !.file =
                          [header |-> @.header \cup {"status"},
                           rows |-> [j \in 1..Len(@.rows) |->
                               DictUpdate(@.rows[j],
                                   [status |-> IF j = i THEN "order_confirmed"
                                               ELSE Get(@.rows[j], "status", "")])]]]
                 ELSE result

trigger_order_booking_call(f, customer_id, resp, t) ==
    LET i == IndexOfId(read_customers(f), customer_id)
    IN  IF i = 0 \/ Get(read_customers(f)[i], "status", "None") # "new"
        THEN Rejected(f, "Invalid customer status for order booking")
        ELSE IF Get(read_customers(f)[i], "mobile", "") = ""
        THEN Rejected(f, "Mobile number not found")
        ELSE LET result == trigger_call(f, customer_id, "order_booking", resp, t)
             IN  IF result.success
                 THEN [result EXCEPT !.file =
                          update_customer(@, customer_id, [status |-> "called"])]
                 ELSE result

trigger_arrival_confirmation_call(f, customer_id, resp, t) ==
    LET i == IndexOfId(read_customers(f), customer_id)
    IN  IF i = 0 THEN Rejected(f, "Customer not found")
        ELSE IF Get(read_customers(f)[i], "mobile", "") = ""
        THEN Rejected(f, "Mobile number not found")
        ELSE trigger_call(f, customer_id, "arrival_confirmation", resp, t)

trigger_missed_customer_recovery_call(f, customer_id, resp, t) ==
    LET i == IndexOfId(read_customers(f), customer_id)
    IN  IF i = 0 \/ Get(read_customers(f)[i], "status", "None") # "no_show"
        THEN Rejected(f, "Invalid customer status for recovery call")
        ELSE IF Get(read_customers(f)[i], "mobile", "") = ""
        THEN Rejected(f, "Mobile number not found")
        ELSE trigger_call(f, customer_id, "missed_customer_recovery", resp, t)

(***************************************************************************)
(* scheduler.py: scan_and_trigger_calls, one action per loop iteration.    *)
(***************************************************************************)
\* str.lower() on the strings of the model that have capitals.
Lower(s) ==
    CASE s \in {"True", "TRUE"} -> "true"
      [] s \in {"Arrived", "ARRIVED"} -> "arrived"
      [] s = "Not Coming" -> "not coming"
      [] s = "Reschedule" -> "reschedule"
      [] s = "TAKEAWAY" -> "takeaway"
      [] OTHER -> s

\* Mutant: the status test is lost.
ArrivalEligible_NoStatus(customer) ==
    Lower(Get(customer, "arrival_confirmed", "false")) # "true"

\* Mutant: arrival_confirmed is compared without lower().
ArrivalEligible_NoLower(customer) ==
    /\ Get(customer, "arrival_confirmed", "false") # "true"
    /\ Get(customer, "status", "") \in {"order_confirmed", "called"}

\* Lines 33-37: the arrival loop's test on the row it was handed.
ArrivalEligible(customer) ==
    /\ Lower(Get(customer, "arrival_confirmed", "false")) # "true"
    /\ Get(customer, "status", "") \in {"order_confirmed", "called"}

\* Mutant: a call exactly RecallGapMinutes old still blocks.
should_call_Strict(customer, t) ==
    LET last_call_time_str == Get(customer, "last_call_time", <<>>)
    IN  IF Len(last_call_time_str) > 0 /\ IsIso(last_call_time_str)
        THEN ~(t - fromisoformat(last_call_time_str) <= RecallGapMinutes)
        ELSE TRUE

\* Lines 46-56: should_call for a no_show row at wall clock t.
should_call(customer, t) ==
    LET last_call_time_str == Get(customer, "last_call_time", <<>>)
    IN  IF Len(last_call_time_str) > 0 /\ IsIso(last_call_time_str)
        THEN ~(t - fromisoformat(last_call_time_str) < RecallGapMinutes)
        ELSE TRUE

FailedPosts == {<<posts[i].customer_id, posts[i].call_flow>> :
                    i \in {j \in 1..Len(posts) : ~posts[j].success}}

\* The interval trigger fires a tick every ScanIntervalMinutes; the run
\* observed has at most limit ticks.
ScanBeginWithin(limit) ==
    /\ UNCHANGED notifyVars
    /\ UNCHANGED apiVars
    /\ scan.pc = "idle"
    /\ scan.tick < limit
    /\ scan' = [scan EXCEPT !.pc = "new", !.aborted = FALSE,
                            !.queue = get_customers_by_status(csv_file, "new")]
    /\ tick_start' = read_customers(csv_file)
    /\ prev_failed' = FailedPosts
    /\ posts' = <<>>
    /\ triggered' = {}
    /\ arrival_seen' = <<>>
    /\ no_show_seen' = <<>>
    /\ now' = IF scan.tick = 0 THEN now ELSE now + ScanIntervalMinutes
    /\ UNCHANGED <<csv_file, recovery_calls>>

ScanBegin == ScanBeginWithin(MaxTicks)

ScanNewStep ==
    /\ UNCHANGED notifyVars
    /\ UNCHANGED apiVars
    /\ scan.pc = "new"
    /\ scan.queue # <<>>
    /\ \E resp \in ProviderResponses :
        LET customer_id == Head(scan.queue)["customer_id"]
            result == trigger_order_booking_call(csv_file, customer_id, resp, now)
        IN  /\ csv_file' = result.file
            /\ posts' = posts \o result.posts
            /\ triggered' = triggered \cup {<<customer_id, "order_booking">>}
    /\ scan' = [scan EXCEPT !.queue = Tail(@)]
    /\ UNCHANGED <<now, tick_start, arrival_seen, no_show_seen, prev_failed,
                   recovery_calls>>

ScanArrivalQuery ==
    /\ UNCHANGED notifyVars
    /\ UNCHANGED apiVars
    /\ scan.pc = "new"
    /\ scan.queue = <<>>
    /\ scan' = [scan EXCEPT !.pc = "arrival",
                            !.queue = get_customers_for_arrival_check(csv_file, now)]
    /\ arrival_seen' = read_customers(csv_file)
    /\ UNCHANGED <<csv_file, now, posts, triggered, tick_start, no_show_seen,
                   prev_failed, recovery_calls>>

ScanArrivalStep ==
    /\ UNCHANGED notifyVars
    /\ UNCHANGED apiVars
    /\ scan.pc = "arrival"
    /\ scan.queue # <<>>
    /\ LET customer == Head(scan.queue)
           customer_id == customer["customer_id"]
       IN  IF ArrivalEligible(customer)
           THEN \E resp \in ProviderResponses :
                   LET result == trigger_arrival_confirmation_call(
                                     csv_file, customer_id, resp, now)
                   IN  /\ csv_file' = result.file
                       /\ posts' = posts \o result.posts
                       /\ triggered' = triggered \cup
                              {<<customer_id, "arrival_confirmation">>}
           ELSE UNCHANGED <<csv_file, posts, triggered>>
    /\ scan' = [scan EXCEPT !.queue = Tail(@)]
    /\ UNCHANGED <<now, tick_start, arrival_seen, no_show_seen, prev_failed,
                   recovery_calls>>

ScanNoShowQuery ==
    /\ UNCHANGED notifyVars
    /\ UNCHANGED apiVars
    /\ scan.pc = "arrival"
    /\ scan.queue = <<>>
    /\ scan' = [scan EXCEPT !.pc = "no_show",
                            !.queue = get_customers_by_status(csv_file, "no_show")]
    /\ no_show_seen' = read_customers(csv_file)
    /\ UNCHANGED <<csv_file, now, posts, triggered, tick_start, arrival_seen,
                   prev_failed, recovery_calls>>

ScanNoShowStep ==
    /\ UNCHANGED notifyVars
    /\ UNCHANGED apiVars
    /\ scan.pc = "no_show"
    /\ scan.queue # <<>>
    /\ LET customer == Head(scan.queue)
           customer_id == customer["customer_id"]
       IN  IF should_call(customer, now)
           THEN \E resp \in ProviderResponses :
                   LET result == trigger_missed_customer_recovery_call(
                                     csv_file, customer_id, resp, now)
                   IN  /\ csv_file' = result.file
                       /\ posts' = posts \o result.posts
                       /\ triggered' = triggered \cup
                              {<<customer_id, "missed_customer_recovery">>}
                       /\ recovery_calls' =
                              IF result.posts # <<>>
                              THEN [recovery_calls EXCEPT
                                       ![customer_id] = @ \cup {now}]
                              ELSE recovery_calls
           ELSE UNCHANGED <<csv_file, posts, triggered, recovery_calls>>
    /\ scan' = [scan EXCEPT !.queue = Tail(@)]
    /\ UNCHANGED <<now, tick_start, arrival_seen, no_show_seen, prev_failed>>

\* The tick returns.
ScanEnd ==
    /\ UNCHANGED notifyVars
    /\ UNCHANGED apiVars
    /\ scan.pc = "no_show"
    /\ scan.queue = <<>>
    /\ scan' = [scan EXCEPT !.pc = "idle", !.tick = @ + 1]
    /\ UNCHANGED <<csv_file, now, posts, triggered, tick_start, arrival_seen,
                   no_show_seen, prev_failed, recovery_calls>>

\* csv_utils raises (an I/O error on customers.csv) in the list query or
\* at the first store read of the current iteration.  Nothing in
\* scan_and_trigger_calls catches it: the tick ends there.
ScanStoreError ==
    /\ UNCHANGED notifyVars
    /\ UNCHANGED apiVars
    /\ scan.pc \in {"new", "arrival", "no_show"}
    /\ scan' = [scan EXCEPT !.pc = "idle", !.queue = <<>>, !.tick = @ + 1,
                            !.aborted = TRUE]
    /\ UNCHANGED <<csv_file, now, posts, triggered, tick_start, arrival_seen,
                   no_show_seen, prev_failed, recovery_calls>>

(***************************************************************************)
(* Initial states.  The scan job reads columns (FlowColumns) that          *)
(* write_customers never writes, so it can act only on a customers.csv     *)
(* that already exists with those columns when the process starts.  Such   *)
(* a file holds one row per customer id.  The other initial files are the  *)
(* ones write_customers leaves: the same rows with CSV_COLUMNS only.       *)
(***************************************************************************)
Profile(mobile, status, expected, confirmed, last_call) ==
    [mobile |-> mobile, status |-> status, expected_arrival_time |-> expected,
     arrival_confirmed |-> confirmed, last_call_time |-> last_call]

Profiles ==
    {Profile(m, "new", e, "false", <<>>) :
        m \in {"m", ""}, e \in {<<>>, isoformat(0 - 10)}}
    \cup
    {Profile("m", "order_confirmed", e, "false", <<>>) :
        e \in {isoformat(0 - 10), isoformat(60), <<"bad">>, <<>>}}
    \cup
    {Profile("m", "order_confirmed", isoformat(0 - 10), "True", <<>>),
     Profile("", "order_confirmed", isoformat(0 - 10), "false", <<>>),
     Profile("m", "called", isoformat(0 - 10), "false", isoformat(0 - 20)),
     Profile("m", "called", isoformat(3), "false", isoformat(0 - 20)),
     Profile("m", "arrived", isoformat(0 - 10), "true", isoformat(0 - 5)),
     Profile("m", "resolved", isoformat(0 - 10), "false", isoformat(0 - 5))}
    \cup
    {Profile("m", "no_show", isoformat(0 - 40), "false", l) :
        l \in {<<>>, <<"bad">>, isoformat(0 - 10), isoformat(0 - 29),
               isoformat(0 - 30)}}

Row(customer_id, p) ==
    [customer_id |-> customer_id, name |-> "n", mobile |-> p.mobile,
     email |-> "e", timestamp |-> isoformat(0 - 60), admin_token |-> "",
     status |-> p.status, expected_arrival_time |-> p.expected_arrival_time,
     arrival_confirmed |-> p.arrival_confirmed,
     last_call_time |-> p.last_call_time]

InitScan ==
    /\ \E ps \in [CustomerIds -> Profiles] :
          \/ csv_file = [header |-> CSV_COLUMNS \cup FlowColumns,
                         rows   |-> [i \in CustomerIds |-> Row(i, ps[i])]]
          \/ csv_file = write_customers([i \in CustomerIds |-> Row(i, ps[i])])
    /\ now = 0
    /\ scan = [pc |-> "idle", queue |-> <<>>, tick |-> 0, aborted |-> FALSE]
    /\ posts = <<>>
    /\ triggered = {}
    /\ tick_start = <<>>
    /\ arrival_seen = <<>>
    /\ no_show_seen = <<>>
    /\ prev_failed = {}
    /\ recovery_calls = NoRecoveryCalls

(***************************************************************************)
(* phone_handler.py: the email path.                                       *)
(*                                                                         *)
(* A call detail payload (the "data" of get_call_detail) is a record       *)
(*   status, phone_number, outcome (callOutcomesData.outcome), and the     *)
(*   fields of callOutcomesData.reservation_details: rd_status (""  when   *)
(*   the object is absent or empty), date, time, number_of_people, email.  *)
(* Phone numbers are kept in normalised form.                              *)
(***************************************************************************)
get_customer_by_mobile(f, mobile) ==
    LET hits == {i \in 1..Len(read_customers(f)) :
                    Get(read_customers(f)[i], "mobile", "") = mobile}
    IN  IF hits = {} THEN 0
        ELSE CHOOSE i \in hits : \A j \in hits : i <= j

\* _send_email: smtp is "ok" when the SMTP session succeeds.
send_email(email, smtp) ==
    IF email = ""
    THEN [success |-> FALSE, message |-> "Email address is required", sent |-> FALSE]
    ELSE IF smtp = "ok"
    THEN [success |-> TRUE, message |-> "Email sent", sent |-> TRUE]
    ELSE [success |-> FALSE, message |-> "None", sent |-> FALSE]

\* Lines 249-255 and 294-300: the address found through the phone number.
LookupEmail(f, email, phone_number) ==
    IF email = "" /\ phone_number # ""
    THEN LET i == get_customer_by_mobile(f, phone_number)
         IN  IF i # 0 /\ Get(read_customers(f)[i], "email", "") # ""
             THEN read_customers(f)[i]["email"]
             ELSE email
    ELSE email

\* Mutant: a confirmed reservation is mailed without the test of line 303
\* for missing details.
send_reservation_email_Unvalidated(f, email, date, time, number_of_people, call_data, smtp) ==
    IF /\ call_data.status = "completed"
       /\ call_data.outcome = "reservation_confirmed"
       /\ call_data.rd_status = "confirmed"
    THEN LET result == send_email(
                 LookupEmail(f, IF call_data.email # "" THEN call_data.email
                                ELSE email, call_data.phone_number), smtp)
         IN  [success |-> result.success, message |-> result.message,
              kind |-> IF result.sent THEN "confirmation" ELSE "none"]
    ELSE [success |-> FALSE, message |-> "Reservation not confirmed",
          kind |-> "none"]

\* send_reservation_email with a non-empty call_data; email, date, time
\* and number_of_people are the caller's arguments.  kind tells which
\* message was handed to SMTP.
send_reservation_email(f, email, date, time, number_of_people, call_data, smtp) ==
    LET email1 == LookupEmail(f, email, call_data.phone_number)
    IN  IF call_data.status = "in_progress"
        THEN LET result == send_email(email1, smtp)
             IN  [success |-> result.success,
                  message |-> IF result.success THEN "Wait email sent"
                              ELSE result.message,
                  kind    |-> IF result.sent THEN "wait" ELSE "none"]
        ELSE IF call_data.status = "completed"
        THEN IF call_data.outcome # "reservation_confirmed"
             THEN [success |-> FALSE,
                   message |-> "No reservation confirmed in this call",
                   kind |-> "none"]
             ELSE IF call_data.rd_status # "confirmed"
             THEN [success |-> FALSE, message |-> "Reservation not confirmed",
                   kind |-> "none"]
             ELSE LET date1 == IF call_data.date # "" THEN call_data.date ELSE date
                      time1 == IF call_data.time # "" THEN call_data.time ELSE time
                      people1 == IF call_data.number_of_people # ""
                                 THEN call_data.number_of_people
                                 ELSE number_of_people
                      email2 == LookupEmail(
                                    f,
                                    IF call_data.email # "" THEN call_data.email
                                    ELSE email1,
                                    call_data.phone_number)
                  IN  IF date1 = "" \/ time1 = "" \/ people1 = ""
                      THEN [success |-> FALSE,
                            message |-> "Reservation details incomplete",
                            kind |-> "none"]
                      ELSE LET result == send_email(email2, smtp)
                           IN  [success |-> result.success,
                                message |-> IF result.success
                                            THEN "Reservation confirmation sent"
                                            ELSE result.message,
                                kind    |-> IF result.sent THEN "confirmation"
                                            ELSE "none"]
        ELSE [success |-> FALSE, message |-> "Call status not handled",
              kind |-> "none"]

(***************************************************************************)
(* scheduler.py: check_and_send_reservation_emails, one action per loop    *)
(* iteration, and app.py: GET /api/phone-calls/{call_id}/detail.           *)
(***************************************************************************)
Digit(d) == <<"0", "1", "2", "3", "4", "5", "6", "7", "8", "9">>[d + 1]

RECURSIVE Str(_)
Str(n) == IF n < 10 THEN Digit(n) ELSE Str(n \div 10) \o Digit(n % 10)

\* Mutant: the dedup test never hits.
AlreadySent_Never(call_id, cache) == FALSE

\* Line 89: the dedup test.
AlreadySent(call_id, cache) == Str(call_id) \in cache

\* Mutant: every call whose detail was fetched is marked handled.
MarksHandled_Always(email_result) == TRUE

\* Lines 111-118: whether the job marks the call handled.
MarksHandled(email_result) ==
    \/ email_result.success
    \/ email_result.message = "No reservation confirmed in this call"

\* What happens to one fetch-and-send: everything works, get_call_detail
\* answers success=false, the SMTP session fails, or the loop body raises.
Environment == {"ok", "detail_error", "smtp_error", "raise"}

CountEmail(call_id, kind) ==
    IF kind = "none" THEN emails
    ELSE [emails EXCEPT ![call_id][kind] = @ + 1]

NotifyBegin ==
    /\ UNCHANGED scanVars
    /\ UNCHANGED apiVars
    /\ notify.pc = "idle"
    /\ \E list_ok \in BOOLEAN :
          IF list_ok
          THEN notify' = [notify EXCEPT
                   !.pc = "loop",
                   !.queue = SelectSeq([i \in CallIds |-> i],
                                 LAMBDA c : provider[c].listed = "completed")]
          ELSE notify' = notify
    /\ tick_fetched' = {}
    /\ tick_sent' = {}
    /\ cache_at_begin' = sent_emails_cache
    /\ UNCHANGED <<sent_emails_cache, provider, emails, job_result, requests>>

\* Mutant: an exception while one call is processed ends the tick.
NotifyStep_AbortsOnFailure ==
    /\ UNCHANGED scanVars
    /\ UNCHANGED apiVars
    /\ notify.pc = "loop"
    /\ notify.queue # <<>>
    /\ LET call_id == Head(notify.queue)
       IN  IF AlreadySent(call_id, sent_emails_cache)
           THEN /\ job_result' = [job_result EXCEPT ![call_id] = "dedup_skip"]
                /\ notify' = [notify EXCEPT !.queue = Tail(@)]
                /\ UNCHANGED <<sent_emails_cache, emails, tick_fetched, tick_sent>>
           ELSE \E env \in Environment :
                   IF env = "raise"
                   THEN /\ job_result' = [job_result EXCEPT ![call_id] = "exception"]
                        /\ notify' = [notify EXCEPT !.pc = "idle", !.queue = <<>>]
                        /\ UNCHANGED <<sent_emails_cache, emails, tick_fetched,
                                       tick_sent>>
                   ELSE IF env = "detail_error"
                   THEN /\ job_result' = [job_result EXCEPT ![call_id] = "detail_failed"]
                        /\ notify' = [notify EXCEPT !.queue = Tail(@)]
                        /\ tick_fetched' = tick_fetched \cup {call_id}
                        /\ UNCHANGED <<sent_emails_cache, emails, tick_sent>>
                   ELSE LET email_result == send_reservation_email(
                                csv_file, "", "", "", "",
                                provider[call_id].detail,
                                IF env = "ok" THEN "ok" ELSE "fail")
                        IN  /\ tick_fetched' = tick_fetched \cup {call_id}
                            /\ tick_sent' = tick_sent \cup {call_id}
                            /\ notify' = [notify EXCEPT !.queue = Tail(@)]
                            /\ emails' = CountEmail(call_id, email_result.kind)
                            /\ job_result' = [job_result EXCEPT ![call_id] =
                                                 email_result.message]
                            /\ sent_emails_cache' =
                                  IF MarksHandled(email_result)
                                  THEN sent_emails_cache \cup {Str(call_id)}
                                  ELSE sent_emails_cache
    /\ UNCHANGED <<provider, cache_at_begin, requests>>

NotifyStep ==
    /\ UNCHANGED scanVars
    /\ UNCHANGED apiVars
    /\ notify.pc = "loop"
    /\ notify.queue # <<>>
    /\ LET call_id == Head(notify.queue)
       IN  IF AlreadySent(call_id, sent_emails_cache)
           THEN /\ job_result' = [job_result EXCEPT ![call_id] = "dedup_skip"]
                /\ UNCHANGED <<sent_emails_cache, emails, tick_fetched, tick_sent>>
           ELSE \E env \in Environment :
                   IF env = "raise"
                   THEN /\ job_result' = [job_result EXCEPT ![call_id] = "exception"]
                        /\ UNCHANGED <<sent_emails_cache, emails, tick_fetched,
                                       tick_sent>>
                   ELSE IF env = "detail_error"
                   THEN /\ job_result' = [job_result EXCEPT ![call_id] = "detail_failed"]
                        /\ tick_fetched' = tick_fetched \cup {call_id}
                        /\ UNCHANGED <<sent_emails_cache, emails, tick_sent>>
                   ELSE LET email_result == send_reservation_email(
                                csv_file, "", "", "", "",
                                provider[call_id].detail,
                                IF env = "ok" THEN "ok" ELSE "fail")
                        IN  /\ tick_fetched' = tick_fetched \cup {call_id}
                            /\ tick_sent' = tick_sent \cup {call_id}
                            /\ emails' = CountEmail(call_id, email_result.kind)
                            /\ job_result' = [job_result EXCEPT ![call_id] =
                                                 email_result.message]
                            /\ sent_emails_cache' =
                                  IF MarksHandled(email_result)
                                  THEN sent_emails_cache \cup {Str(call_id)}
                                  ELSE sent_emails_cache
    /\ notify' = [notify EXCEPT !.queue = Tail(@)]
    /\ UNCHANGED <<provider, cache_at_begin, requests>>

\* Mutant: the cache is emptied at the end of a tick.
NotifyEnd_ForgetsCache ==
    /\ UNCHANGED scanVars
    /\ UNCHANGED apiVars
    /\ notify.pc = "loop"
    /\ notify.queue = <<>>
    /\ notify' = [notify EXCEPT !.pc = "idle"]
    /\ sent_emails_cache' = {}
    /\ UNCHANGED <<provider, emails, job_result, tick_fetched,
                   tick_sent, cache_at_begin, requests>>

NotifyEnd ==
    /\ UNCHANGED scanVars
    /\ UNCHANGED apiVars
    /\ notify.pc = "loop"
    /\ notify.queue = <<>>
    /\ notify' = [notify EXCEPT !.pc = "idle"]
    /\ UNCHANGED <<sent_emails_cache, provider, emails, job_result, tick_fetched,
                   tick_sent, cache_at_begin, requests>>

\* app.py api_get_call_detail: the whole handler.
ApiGetCallDetail ==
    /\ UNCHANGED scanVars
    /\ UNCHANGED apiVars
    /\ requests < MaxRequests
    /\ requests' = requests + 1
    /\ \E call_id \in CallIds, env \in Environment \ {"raise"} :
          IF env = "detail_error"
          THEN UNCHANGED emails
          ELSE LET call_data == provider[call_id].detail
               IN  IF call_data.status \in {"in_progress", "completed"}
                   THEN emails' = CountEmail(call_id,
                            send_reservation_email(
                                csv_file, "", "", "", "", call_data,
                                IF env = "ok" THEN "ok" ELSE "fail").kind)
                   ELSE UNCHANGED emails
    /\ UNCHANGED <<sent_emails_cache, provider, notify, job_result, tick_fetched,
                   tick_sent, cache_at_begin>>

\* Call payloads the provider may hold.
Payload(status, phone_number, outcome, rd_status, date, email) ==
    [status |-> status, phone_number |-> phone_number, outcome |-> outcome,
     rd_status |-> rd_status, date |-> date, time |-> "19:00",
     number_of_people |-> "4", email |-> email]

Payloads ==
    {Payload("completed", "", "reservation_confirmed", "confirmed", "2024-01-01", "x"),
     Payload("completed", "", "reservation_confirmed", "confirmed", "2024-01-01", ""),
     Payload("completed", "m", "reservation_confirmed", "confirmed", "", "x"),
     Payload("completed", "m", "reservation_confirmed", "pending", "2024-01-01", "x"),
     Payload("completed", "m", "no_answer", "", "", ""),
     Payload("in_progress", "m", "", "", "", "")}

\* What the provider holds for one call: its status in the call list and
\* its detail payload.
ProviderCalls ==
    {[listed |-> "completed", detail |-> d] : d \in Payloads}
    \cup
    {[listed |-> "in_progress", detail |-> Payload("failed", "m", "", "", "", "")]}

BaseRow(customer_id, mobile, email) ==
    [customer_id |-> customer_id, name |-> "n", mobile |-> mobile,
     email |-> email, timestamp |-> isoformat(0 - 60), admin_token |-> ""]

InitNotify ==
    /\ sent_emails_cache = {}
    /\ provider \in [CallIds -> ProviderCalls]
    /\ notify = [pc |-> "idle", queue |-> <<>>]
    /\ emails = [c \in CallIds |-> [confirmation |-> 0, wait |-> 0]]
    /\ job_result = [c \in CallIds |-> "none"]
    /\ tick_fetched = {}
    /\ tick_sent = {}
    /\ cache_at_begin = {}
    /\ requests = 0

(***************************************************************************)
(* phone_handler.py send_reservation_email called directly, on any         *)
(* payload.  The reservation outcome is what lines 272-287 read from the   *)
(* payload: callOutcomesData.reservation_details behind the test of        *)
(* callOutcomesData.outcome, each value falling back to the caller's       *)
(* argument when the payload's is empty.  The source has no other          *)
(* extraction step.                                                        *)
(***************************************************************************)
\* Mutant: the caller's arguments come first, the payload's values second.
reservation_details_ArgumentsFirst(call_data, date, time, number_of_people) ==
    [found  |-> /\ call_data.outcome = "reservation_confirmed"
                /\ call_data.rd_status = "confirmed",
     status |-> call_data.rd_status,
     date   |-> IF date # "" THEN date ELSE call_data.date,
     time   |-> IF time # "" THEN time ELSE call_data.time,
     number_of_people |-> IF number_of_people # "" THEN number_of_people
                          ELSE call_data.number_of_people,
     from_arguments |-> {k \in {"date", "time", "number_of_people"} :
                            <<date, time, number_of_people>>[
                                IF k = "date" THEN 1
                                ELSE IF k = "time" THEN 2 ELSE 3] # ""}]

reservation_details(call_data, date, time, number_of_people) ==
    IF call_data.outcome # "reservation_confirmed"
    THEN \* line 276: reservation_details is not read
         [found |-> FALSE, status |-> "", date |-> "", time |-> "",
          number_of_people |-> "", from_arguments |-> {}]
    ELSE IF call_data.rd_status # "confirmed"
    THEN [found |-> FALSE, status |-> call_data.rd_status, date |-> "",
          time |-> "", number_of_people |-> "", from_arguments |-> {}]
    ELSE [found  |-> TRUE,
          status |-> call_data.rd_status,
          date   |-> IF call_data.date # "" THEN call_data.date ELSE date,
          time   |-> IF call_data.time # "" THEN call_data.time ELSE time,
          number_of_people |-> IF call_data.number_of_people # ""
                               THEN call_data.number_of_people
                               ELSE number_of_people,
          from_arguments |-> {k \in {"date", "time", "number_of_people"} :
                                 call_data[k] = ""}]

\* Call payloads of any shape.
EmailPayloads ==
    [status : {"completed", "in_progress", "failed"},
     phone_number : {"m", ""},
     outcome : {"reservation_confirmed", "no_answer"},
     rd_status : {"confirmed", "pending", ""},
     date : {"2024-01-01", ""},
     time : {"19:00", ""},
     number_of_people : {"4", ""},
     email : {"x", ""}]

\* One call of send_reservation_email.  given is what the caller passes
\* for date, time and number_of_people: the empty string, as both callers
\* in the source do, or a value of its own.
SendReservationEmail ==
    /\ UNCHANGED <<scanVars, notifyVars, wait, sched, store_ops>>
    /\ \E call_data \in EmailPayloads, given \in {"", "given"},
          smtp \in {"ok", "fail"} :
          LET result == send_reservation_email(csv_file, "", given, given,
                                               given, call_data, smtp)
          IN  api' = [op |-> "send_reservation_email",
                      call_data |-> call_data, given |-> given,
                      success |-> result.success,
                      message |-> result.message, kind |-> result.kind,
                      outcome |-> reservation_details(call_data, given,
                                                      given, given)]

(***************************************************************************)
(* app.py: wait_for_call_completion, one action per loop iteration, and    *)
(* the statement of create_customer that receives its result.              *)
(*                                                                         *)
(* Time is counted in whole seconds of time.monotonic().  A returned       *)
(* Python value is [tuple, items]: the bare value False is                 *)
(* [tuple |-> FALSE, items |-> <<"False">>] and the pair (True, details)   *)
(* is [tuple |-> TRUE, items |-> <<"True", s>>] with s the status in the   *)
(* detail.                                                                 *)
(***************************************************************************)
Never == 0 - 1

\* Python binds the keyword arguments of a call to the parameters the
\* callee declares; a keyword it does not declare raises TypeError.
Accepts(params, kwargs) == kwargs \subseteq params

\* phone_handler.py: async def get_call_detail(call_id: int)
get_call_detail_params == {"call_id"}

\* phone_handler.py: async def make_call(prompt, evaluation_tool, vad_engine)
make_call_params == {"prompt", "evaluation_tool", "vad_engine"}

\* What the provider, or the transport, answers to one detail request.
ProviderAnswers == {"completed", "in_progress", "http_error", "transport_error"}

\* get_call_detail: [success, status] with status = data.status.
get_call_detail(answer) ==
    IF answer \in {"completed", "in_progress"}
    THEN [success |-> TRUE, status |-> answer]
    ELSE [success |-> FALSE, status |-> NoneValue]

\* The provider of one wait: its first `fails` polls fail in transport, the
\* next k report in_progress (all of them when k = Never), the later ones
\* report completed.
PollAnswer(script, n) ==
    IF n <= script.fails THEN "transport_error"
    ELSE IF script.k = Never \/ n - script.fails <= script.k THEN "in_progress"
    ELSE "completed"

PyFalse == [tuple |-> FALSE, items |-> <<"False">>]

PyTrueWith(details) == [tuple |-> TRUE, items |-> <<"True", details.status>>]

\* completed, details = value
Unpack2(value) ==
    IF value.tuple /\ Len(value.items) = 2
    THEN [error |-> "", completed |-> value.items[1], details |-> value.items[2]]
    ELSE [error |-> "TypeError", completed |-> NoneValue, details |-> NoneValue]

\* Line 84: start = time.monotonic()
WaitBegin ==
    /\ UNCHANGED <<scanVars, notifyVars, api, sched, store_ops>>
    /\ wait.pc = "call"
    /\ wait' = [wait EXCEPT !.pc = "loop", !.start = wait.clock]

\* Lines 86-100: one iteration of the loop.  d is the time that passed
\* since the clock was last read.
WaitIterate ==
    /\ UNCHANGED <<scanVars, notifyVars, api, sched, store_ops>>
    /\ wait.pc = "loop"
    /\ wait.polls < MaxPolls
    /\ \E d \in {0, 1} :
        LET clock == wait.clock + d
            elapsed == clock - wait.start
        IN  IF elapsed > wait.timeout_seconds
            THEN wait' = [wait EXCEPT !.pc = "returned", !.clock = clock,
                                      !.exit = "timeout", !.ret = PyFalse]
            ELSE IF ~Accepts(get_call_detail_params, {"call_id", "admin_token"})
            THEN wait' = [wait EXCEPT !.pc = "raised", !.clock = clock,
                                      !.exit = "TypeError"]
            ELSE LET details == get_call_detail(
                                    PollAnswer(wait.script, wait.polls + 1))
                 IN  IF details.success /\ details.status = "completed"
                     THEN wait' = [wait EXCEPT !.pc = "returned", !.clock = clock,
                                               !.polls = @ + 1,
                                               !.exit = "completed",
                                               !.ret = PyTrueWith(details)]
                     ELSE wait' = [wait EXCEPT !.clock = clock + wait.poll_interval,
                                               !.polls = @ + 1]

\* app.py line 126: completed, details = await wait_for_call_completion(...)
\* An exception, from the wait or from the unpacking, goes to the handler
\* of line 137.
WaitReceive ==
    /\ UNCHANGED <<scanVars, notifyVars, api, sched, store_ops>>
    /\ wait.pc \in {"returned", "raised"}
    /\ wait' = [wait EXCEPT
                   !.pc = "done",
                   !.caller = IF wait.pc = "raised"
                              THEN [error |-> wait.exit, completed |-> NoneValue,
                                    details |-> NoneValue]
                              ELSE Unpack2(wait.ret)]

NoCaller == [error |-> "", completed |-> NoneValue, details |-> NoneValue]

Waiter(pc, timeout_seconds, poll_interval, script) ==
    [pc |-> pc, timeout_seconds |-> timeout_seconds,
     poll_interval |-> poll_interval, script |-> script, start |-> 0,
     clock |-> 0, polls |-> 0, exit |-> "", ret |-> PyFalse,
     caller |-> NoCaller]

InitWait ==
    \E timeout_seconds \in 0..MaxTimeout, poll_interval \in {0, 1},
       k \in {Never} \cup (0..MaxPolls), fails \in {0, 1} :
        wait = Waiter("call", timeout_seconds, poll_interval,
                      [k |-> k, fails |-> fails])

IdleWait == wait = Waiter("idle", 0, 0, [k |-> 0, fails |-> 0])

NoRequest == [op |-> "none", customer_id |-> 0, status_code |-> 0,
              flow |-> "none", error |-> ""]

\* The scheduler after start_scheduler: both jobs registered, no run
\* skipped, none doubled, none cancelled.
StartedScheduler == [state |-> "running", skipped |-> {}, doubled |-> {},
                     cancelled |-> {}, unrecorded |-> {}]

\* No csv_utils operation is in progress in another task.
NoStoreOps == <<>>

IdleApi ==
    /\ IdleWait
    /\ api = NoRequest
    /\ sched = StartedScheduler
    /\ store_ops = NoStoreOps

(***************************************************************************)
(* client_handler.py: handle_call_webhook.  webhook_data is                *)
(* [customer_id, flow, result]; customer_id 0 stands for a missing or      *)
(* empty id, result is the dict of outcome fields.                         *)
(***************************************************************************)
EmptyDict == [k \in {} |-> ""]

\* {to: call_result[from]} when call_result has the key, else {}.
CopyKey(call_result, from, to) ==
    IF from \in DOMAIN call_result THEN to :> call_result[from] ELSE EmptyDict

WebhookDone(f) == [file |-> f, success |-> TRUE, error |-> "", raised |-> ""]

WebhookFailed(f, error) ==
    [file |-> f, success |-> FALSE, error |-> error, raised |-> ""]

\* None.lower(): 'NoneType' object has no attribute 'lower'.
WebhookRaised(f) ==
    [file |-> f, success |-> FALSE, error |-> "", raised |-> "AttributeError"]

handle_call_webhook(f, webhook_data) ==
    LET customer_id == webhook_data.customer_id
        call_flow == webhook_data.flow
        call_result == webhook_data.result
    IN  IF customer_id = 0 THEN WebhookFailed(f, "Missing customer_id")
        ELSE IF IndexOfId(read_customers(f), customer_id) = 0
        THEN WebhookFailed(f, "Customer not found")
        ELSE IF call_flow = "order_booking"
        THEN WebhookDone(update_customer(f, customer_id,
                 DictUpdate(
                     DictUpdate([status |-> "order_confirmed"],
                                CopyKey(call_result, "order_details",
                                        "order_details")),
                     CopyKey(call_result, "expected_arrival_time",
                             "expected_arrival_time"))))
        ELSE IF call_flow = "arrival_confirmation"
        THEN IF Get(call_result, "arrival_status", "") = NoneValue
             THEN WebhookRaised(f)
             ELSE LET arrival_status ==
                          Lower(Get(call_result, "arrival_status", ""))
                  IN  IF arrival_status = "arrived"
                      THEN WebhookDone(update_customer(f, customer_id,
                               [arrival_confirmed |-> "true",
                                status |-> "arrived"]))
                      ELSE IF arrival_status = "on the way"
                      THEN WebhookDone(f)
                      ELSE IF arrival_status \in {"not coming", "cancel"}
                      THEN WebhookDone(update_customer(f, customer_id,
                               [status |-> "no_show"]))
                      ELSE WebhookDone(f)
        ELSE IF call_flow = "missed_customer_recovery"
        THEN IF Get(call_result, "action", "") = NoneValue
             THEN WebhookRaised(f)
             ELSE LET action == Lower(Get(call_result, "action", ""))
                  IN  IF action = "reschedule"
                      THEN WebhookDone(update_customer(f, customer_id,
                               DictUpdate([status |-> "order_confirmed"],
                                          CopyKey(call_result, "new_arrival_time",
                                                  "expected_arrival_time"))))
                      ELSE IF action = "takeaway"
                      THEN WebhookDone(update_customer(f, customer_id,
                               DictUpdate([status |-> "resolved"],
                                          CopyKey(call_result, "takeaway_order",
                                                  "order_details"))))
                      ELSE IF action = "cancel"
                      THEN WebhookDone(update_customer(f, customer_id,
                               [status |-> "resolved"]))
                      ELSE WebhookDone(f)
        ELSE WebhookDone(f)

\* Outcome dicts a provider may push, per flow.
WebhookResults(flow) ==
    IF flow = "order_booking"
    THEN {EmptyDict,
          [expected_arrival_time |-> isoformat(60)],
          [order_details |-> "o", expected_arrival_time |-> isoformat(60)]}
    ELSE IF flow = "arrival_confirmation"
    THEN {EmptyDict} \cup
         {[arrival_status |-> v] :
             v \in {"arrived", "Arrived", "on the way", "not coming",
                    "cancel", "maybe", NoneValue}}
    ELSE IF flow = "missed_customer_recovery"
    THEN {EmptyDict,
          [action |-> "reschedule", new_arrival_time |-> isoformat(60)],
          [action |-> "takeaway", takeaway_order |-> "o"]}
         \cup
         {[action |-> v] :
             v \in {"reschedule", "Reschedule", "cancel", "later", NoneValue}}
    ELSE {[arrival_status |-> "arrived"]}

WebhookFlows == {"order_booking", "arrival_confirmation",
                 "missed_customer_recovery", "feedback"}

\* The ids a request may name: none (0) or one of CustomerIds, stored or
\* not.
RequestIds == 0..MaxCustomers

WebhookInputs ==
    UNION {{[customer_id |-> id, flow |-> flow, result |-> result] :
               id \in RequestIds, result \in WebhookResults(flow)} :
           flow \in WebhookFlows}

HandleCallWebhook ==
    /\ UNCHANGED <<notifyVars, wait, sched, store_ops>>
    /\ \E webhook_data \in WebhookInputs :
          LET result == handle_call_webhook(csv_file, webhook_data)
          IN  /\ csv_file' = result.file
              /\ api' = [op |-> "webhook", data |-> webhook_data,
                         success |-> result.success, error |-> result.error,
                         raised |-> result.raised,
                         repeat |-> api.op = "webhook"
                                    /\ api.data = webhook_data]
    /\ UNCHANGED <<now, scan, posts, triggered, tick_start, no_show_seen,
                   arrival_seen, prev_failed, recovery_calls>>

(***************************************************************************)
(* csv_utils.py add_customer and app.py POST /customer.  customer_id 0 is  *)
(* the empty id of a request that names none; generated is the id          *)
(* random.randint yields then.                                             *)
(***************************************************************************)
add_customer(f, name, mobile, email, timestamp, customer_id, admin_token, generated, t) ==
    LET customers == read_customers(f)
        id == IF customer_id = 0 THEN generated ELSE customer_id
        ts == IF timestamp = <<>> THEN isoformat(t) ELSE timestamp
    IN  [file |-> write_customers(
                      Append(customers,
                             [customer_id |-> id, name |-> name,
                              mobile |-> mobile, email |-> email,
                              timestamp |-> ts, admin_token |-> admin_token])),
         customer_id |-> id]

\* Mutant: there is no handler around the automatic call; what it raises
\* reaches the handler of line 140.
create_customer_response_Uncaught(customer_id, raised) ==
    IF raised = ""
    THEN [status_code |-> 200, success |-> TRUE, customer_id |-> customer_id]
    ELSE [status_code |-> 500, success |-> NoneValue, customer_id |-> NoneValue]

\* Lines 137-139: whatever the automatic call, the wait or the email send
\* raised is caught and printed, and the answer is that of line 139.
create_customer_response(customer_id, raised) ==
    [status_code |-> 200, success |-> TRUE, customer_id |-> customer_id]

\* The whole handler: the record is stored, then the automatic call is
\* attempted with keywords (customer_name, admin_token) that make_call does
\* not declare; the TypeError is caught at line 137 and the answer is
\* {success: true, customer_id}.  Nothing after add_customer writes to the
\* store.
CreateCustomer ==
    /\ UNCHANGED <<notifyVars, wait, sched, store_ops>>
    /\ Len(read_customers(csv_file)) < MaxCustomers
    /\ \E customer_id \in 0..MaxCustomers, generated \in CustomerIds,
          mobile \in {"m", ""}, email \in {"e", ""},
          timestamp \in {<<>>, isoformat(0 - 60)} :
          LET added == add_customer(csv_file, "n", mobile, email, timestamp,
                                    customer_id, "", generated, now)
              bound == Accepts(make_call_params,
                               {"prompt", "evaluation_tool", "vad_engine",
                                "customer_name", "admin_token"})
              raised == IF bound THEN "" ELSE "TypeError"
              response == create_customer_response(added.customer_id, raised)
          IN  /\ csv_file' = added.file
              /\ api' = [op |-> "create_customer",
                         customer_id |-> response.customer_id,
                         status_code |-> response.status_code,
                         success |-> response.success,
                         stored |-> added,
                         auto_call |-> IF bound THEN "placed" ELSE "TypeError"]
    /\ UNCHANGED <<now, scan, posts, triggered, tick_start, no_show_seen,
                   arrival_seen, prev_failed, recovery_calls>>

(***************************************************************************)
(* csv_utils.py used directly: add_customer followed by                    *)
(* get_customer_by_id, on a store that may already hold records.           *)
(***************************************************************************)
\* The first record with this id, None when there is none.
get_customer_by_id(f, customer_id) ==
    IF IndexOfId(read_customers(f), customer_id) = 0 THEN NoneValue
    ELSE read_customers(f)[IndexOfId(read_customers(f), customer_id)]

\* The values one add_customer call adds: the id and the timestamp are the
\* caller's, or the generated ones when the caller's are empty.
AddedRecord(name, mobile, email, timestamp, customer_id, admin_token, generated, t) ==
    [customer_id |-> IF customer_id = 0 THEN generated ELSE customer_id,
     name |-> name, mobile |-> mobile, email |-> email,
     timestamp |-> IF timestamp = <<>> THEN isoformat(t) ELSE timestamp,
     admin_token |-> admin_token]

AddCustomer ==
    /\ UNCHANGED <<notifyVars, wait, sched, store_ops>>
    /\ Len(read_customers(csv_file)) <= MaxCustomers
    /\ \E customer_id \in 0..MaxCustomers, generated \in CustomerIds,
          name \in {"a", "b\rc"}, email \in {"e", NoneValue},
          timestamp \in {<<>>, isoformat(0 - 60)} :
          LET added == add_customer(csv_file, name, "m", email, timestamp,
                                    customer_id, "", generated, now)
          IN  /\ csv_file' = added.file
              /\ api' = [op |-> "add_customer",
                         customer_id |-> added.customer_id,
                         record |-> AddedRecord(name, "m", email, timestamp,
                                                customer_id, "", generated, now)]
    /\ UNCHANGED <<now, scan, posts, triggered, tick_start, no_show_seen,
                   arrival_seen, prev_failed, recovery_calls>>

GetCustomerById ==
    /\ UNCHANGED <<scanVars, notifyVars, wait, sched, store_ops>>
    /\ \E customer_id \in RequestIds \ {0} :
          api' = [op |-> "get_customer_by_id", customer_id |-> customer_id,
                  result |-> get_customer_by_id(csv_file, customer_id)]

(***************************************************************************)
(* main.py POST /trigger-call/{customer_id}.  The handler calls            *)
(* csv_utils.get_customer_by_id, an `async def`, without await: what it    *)
(* holds is a coroutine object, which is truthy and has no attribute get.  *)
(***************************************************************************)
AsyncDefs == {"init_csv", "read_customers", "write_customers", "add_customer",
              "get_customer_by_id", "get_all_customers",
              "get_customers_by_status", "get_customers_for_arrival_check",
              "get_customer_by_mobile", "update_customer"}

\* The flow the handler's chain of tests picks for a status.
FlowForStatus(status) ==
    IF status = "new" THEN "order_booking"
    ELSE IF status \in {"order_confirmed", "called"} THEN "arrival_confirmation"
    ELSE IF status = "no_show" THEN "missed_customer_recovery"
    ELSE "none"

\* The status column of the first record with this id: NoneValue when the
\* store has no such record, "" when the record has no status column.
StoredStatus(f, customer_id) ==
    IF IndexOfId(read_customers(f), customer_id) = 0 THEN NoneValue
    ELSE Get(read_customers(f)[IndexOfId(read_customers(f), customer_id)],
             "status", "")

main_trigger_call(f, customer_id) ==
    IF "get_customer_by_id" \in AsyncDefs
    THEN \* line 113: customer.get on a coroutine object
         [status_code |-> 500, flow |-> "none", error |-> "AttributeError"]
    ELSE IF IndexOfId(read_customers(f), customer_id) = 0
    THEN [status_code |-> 404, flow |-> "none", error |-> "Customer not found"]
    ELSE LET status == StoredStatus(f, customer_id)
         IN  IF FlowForStatus(status) = "none"
             THEN [status_code |-> 400, flow |-> "none",
                   error |-> "Cannot trigger call for status"]
             ELSE \* dinodial_client's trigger makes the same un-awaited call
                  [status_code |-> 500, flow |-> FlowForStatus(status),
                   error |-> "AttributeError"]

ManualTrigger ==
    /\ UNCHANGED <<scanVars, notifyVars, wait, sched, store_ops>>
    /\ \E customer_id \in RequestIds \ {0} :
          LET response == main_trigger_call(csv_file, customer_id)
          IN  api' = [op |-> "trigger_call", customer_id |-> customer_id,
                      stored |-> StoredStatus(csv_file, customer_id),
                      status_code |-> response.status_code,
                      flow |-> response.flow, error |-> response.error]

\* The stores the handlers may find: up to MaxCustomers records, in a file
\* that carries the flow columns or in one write_customers left.
FlowProfiles ==
    {Profile("m", "new", <<>>, "false", <<>>),
     Profile("m", "order_confirmed", isoformat(0 - 10), "false", <<>>),
     Profile("m", "arrived", isoformat(0 - 10), "true", isoformat(0 - 5)),
     Profile("m", "no_show", isoformat(0 - 40), "false", isoformat(0 - 30))}

InitFlow ==
    /\ \E n \in 0..MaxCustomers :
          \E ps \in [1..n -> FlowProfiles] :
              \/ csv_file = [header |-> CSV_COLUMNS \cup FlowColumns,
                             rows   |-> [i \in 1..n |-> Row(i, ps[i])]]
              \/ csv_file = write_customers([i \in 1..n |-> Row(i, ps[i])])
    /\ now = 0
    /\ scan = [pc |-> "idle", queue |-> <<>>, tick |-> 0, aborted |-> FALSE]
    /\ posts = <<>>
    /\ triggered = {}
    /\ tick_start = <<>>
    /\ arrival_seen = <<>>
    /\ no_show_seen = <<>>
    /\ prev_failed = {}
    /\ recovery_calls = NoRecoveryCalls

(***************************************************************************)
(* phone_handler.py: the four operations of the call-provider adapter,     *)
(* make_call, get_calls_list, get_call_detail and get_recording_url.  They *)
(* share one body and differ in the default error text and in the HTTP     *)
(* status they give a text of its own.  env is what the transport and the  *)
(* provider do with the request: a transport error, or an HTTP status with *)
(* a body that is not JSON, a JSON array, or a JSON object.                *)
(***************************************************************************)
AdapterOps == {"make_call", "get_calls_list", "get_call_detail",
               "get_recording_url"}

\* data.get("message", <default>)
DefaultError(op) ==
    CASE op = "make_call"       -> "Call initiation failed"
      [] op = "get_calls_list"  -> "Failed to fetch calls list"
      [] op = "get_call_detail" -> "Call not found"
      [] OTHER                  -> "Recording URL not found"

\* except httpx.HTTPStatusError
StatusError(op, status_code) ==
    IF op = "get_call_detail" /\ status_code = 404 THEN "Call not found"
    ELSE IF op = "get_recording_url" /\ status_code = 400
    THEN "Recording URL not found"
    ELSE "HTTP error: " \o Str(status_code)

AdapterFailed(error, sent) ==
    [raised |-> "", success |-> FALSE, error |-> error, sent |-> sent]

\* The lines of the try block that follow the request: raise_for_status,
\* response.json() and the test of the body's status, with the handlers
\* that catch what they raise.
AnswerResult(op, env) ==
    IF env.status_code >= 400
    THEN AdapterFailed(StatusError(op, env.status_code), TRUE)
    ELSE IF env.json = "invalid"
    THEN AdapterFailed("Expecting value", TRUE)
    ELSE IF env.json = "array"
    THEN AdapterFailed("'list' object has no attribute 'get'", TRUE)
    ELSE IF Get(env.object, "status", NoneValue) = "success"
    THEN [raised |-> "", success |-> TRUE, error |-> NoneValue, sent |-> TRUE]
    ELSE AdapterFailed(Get(env.object, "message", DefaultError(op)), TRUE)

\* Mutant: a transport error is not caught.
provider_request_Uncaught(op, token, env) ==
    IF token = ""
    THEN AdapterFailed("Bearer token not configured", FALSE)
    ELSE IF env.kind = "transport_error"
    THEN [raised |-> "ConnectError", success |-> NoneValue,
          error |-> NoneValue, sent |-> TRUE]
    ELSE AnswerResult(op, env)

provider_request(op, token, env) ==
    IF token = ""
    THEN AdapterFailed("Bearer token not configured", FALSE)
    ELSE IF env.kind = "transport_error"
    THEN AdapterFailed(env.text, TRUE)
    ELSE AnswerResult(op, env)

\* Bodies of a response: status and an optional text message.
ResponseObjects ==
    {"status" :> "success",
     "status" :> "error",
     ("status" :> "error") @@ ("message" :> "busy"),
     EmptyDict}

AdapterEnvironments ==
    {[kind |-> "transport_error", text |-> t, status_code |-> 0,
      json |-> "invalid", object |-> EmptyDict] : t \in {"", "timed out"}}
    \cup
    {[kind |-> "response", text |-> "", status_code |-> c, json |-> j,
      object |-> EmptyDict] : c \in {200, 400, 404, 500},
                              j \in {"invalid", "array"}}
    \cup
    {[kind |-> "response", text |-> "", status_code |-> c, json |-> "object",
      object |-> o] : c \in {200, 400, 404, 500}, o \in ResponseObjects}

\* One call of an adapter operation; token is
\* config.DINODIAL_PROXY_BEARER_TOKEN.
CallAdapter ==
    /\ UNCHANGED <<scanVars, notifyVars, wait, sched, store_ops>>
    /\ \E op \in AdapterOps, token \in {"", "t"}, env \in AdapterEnvironments :
          api' = [op |-> "adapter", fn |-> op, token |-> token, env |-> env,
                  result |-> provider_request(op, token, env)]

(***************************************************************************)
(* scheduler.py: start_scheduler and stop_scheduler.  The two jobs are     *)
(* coroutines that the AsyncIOScheduler runs as tasks of one event loop.   *)
(* add_job is called without max_instances, so the scheduler's default of  *)
(* one running instance per job applies: a run that falls due while the    *)
(* job's previous run has not returned is skipped.  shutdown() is called   *)
(* from a coroutine and cannot wait: the asyncio executor cancels the      *)
(* tasks of the runs in progress, which end at the await they are          *)
(* suspended in.                                                           *)
(***************************************************************************)
Jobs == {"scan_customers", "check_reservation_emails"}

\* Mutant: two instances of a job may run at once.
max_instances_Two == 1 + 1

max_instances == 1

\* Running instances of a job.
Instances(job) ==
    IF job = "scan_customers"
    THEN IF scan.pc \in {"new", "arrival", "no_show"} THEN 1 ELSE 0
    ELSE IF notify.pc = "loop" THEN 1 ELSE 0

\* A job's interval elapses while a run of it is in progress.
IntervalElapses ==
    /\ UNCHANGED scanVars
    /\ UNCHANGED notifyVars
    /\ UNCHANGED <<wait, api, store_ops>>
    /\ sched.state = "running"
    /\ \E job \in Jobs :
          /\ Instances(job) > 0
          /\ IF Instances(job) >= max_instances
             THEN sched' = [sched EXCEPT !.skipped = @ \cup {job}]
             ELSE sched' = [sched EXCEPT !.doubled = @ \cup {job}]

\* The trigger the scan tick is in: the flow of the loop it runs, for the
\* customer at the head of its queue; posts is empty when that iteration
\* places no call.
PendingTrigger ==
    LET customer == Head(scan.queue)
        customer_id == customer["customer_id"]
    IN  IF scan.pc = "new"
        THEN trigger_order_booking_call(csv_file, customer_id, "200", now)
        ELSE IF scan.pc = "arrival"
        THEN IF ArrivalEligible(customer)
             THEN trigger_arrival_confirmation_call(csv_file, customer_id,
                                                    "200", now)
             ELSE Rejected(csv_file, "")
        ELSE IF should_call(customer, now)
        THEN trigger_missed_customer_recovery_call(csv_file, customer_id,
                                                   "200", now)
        ELSE Rejected(csv_file, "")

\* stop_scheduler.  A tick in progress is cancelled at an await: before
\* the POST of its current trigger was sent, or after it was, in which
\* case client_handler.trigger_call has written last_call_time (line 42)
\* and nothing that follows the POST is executed.
StopScheduler ==
    /\ UNCHANGED <<wait, api, store_ops>>
    /\ sched.state = "running"
    /\ notify' = IF notify.pc = "loop" THEN [notify EXCEPT !.pc = "cancelled"]
                 ELSE notify
    /\ UNCHANGED <<sent_emails_cache, provider, emails, job_result,
                   tick_fetched, tick_sent, cache_at_begin, requests>>
    /\ IF Instances("scan_customers") = 0
       THEN /\ sched' = [sched EXCEPT !.state = "stopped",
                            !.cancelled = {job \in Jobs : Instances(job) > 0}]
            /\ UNCHANGED <<csv_file, scan, posts, triggered, recovery_calls>>
       ELSE /\ scan' = [scan EXCEPT !.pc = "cancelled"]
            /\ \E sent \in BOOLEAN :
                  IF sent /\ scan.queue # <<>> /\ PendingTrigger.posts # <<>>
                  THEN LET post == PendingTrigger.posts[1]
                       IN  /\ csv_file' = update_customer(
                                  csv_file, post.customer_id,
                                  [last_call_time |-> isoformat(now)])
                           /\ posts' = Append(posts, post)
                           /\ triggered' = triggered \cup
                                  {<<post.customer_id, post.call_flow>>}
                           /\ recovery_calls' =
                                  IF post.call_flow = "missed_customer_recovery"
                                  THEN [recovery_calls EXCEPT
                                           ![post.customer_id] = @ \cup {now}]
                                  ELSE recovery_calls
                           /\ sched' = [sched EXCEPT
                                  !.state = "stopped",
                                  !.cancelled = {job \in Jobs : Instances(job) > 0},
                                  !.unrecorded =
                                      IF post.call_flow = "order_booking"
                                      THEN {post.customer_id} ELSE {}]
                  ELSE /\ sched' = [sched EXCEPT
                                  !.state = "stopped",
                                  !.cancelled = {job \in Jobs : Instances(job) > 0}]
                       /\ UNCHANGED <<csv_file, posts, triggered,
                                      recovery_calls>>
    /\ UNCHANGED <<now, tick_start, no_show_seen, arrival_seen, prev_failed>>

\* The stores and calls the scheduler's jobs start with.
SchedStores ==
    {<<Row(1, Profile("m", "new", <<>>, "false", <<>>))>>,
     <<Row(1, Profile("m", "order_confirmed", isoformat(0 - 10), "false",
                      <<>>))>>,
     <<Row(1, Profile("m", "no_show", isoformat(0 - 40), "false",
                      isoformat(0 - 30)))>>}

InitSched ==
    /\ \E rows \in SchedStores :
          csv_file = [header |-> CSV_COLUMNS \cup FlowColumns, rows |-> rows]
    /\ now = 0
    /\ scan = [pc |-> "idle", queue |-> <<>>, tick |-> 0, aborted |-> FALSE]
    /\ posts = <<>>
    /\ triggered = {}
    /\ tick_start = <<>>
    /\ arrival_seen = <<>>
    /\ no_show_seen = <<>>
    /\ prev_failed = {}
    /\ recovery_calls = NoRecoveryCalls
    /\ sent_emails_cache = {}
    /\ provider = [c \in CallIds |->
                      IF c = 1
                      THEN [listed |-> "completed",
                            detail |-> Payload("completed", "m",
                                               "reservation_confirmed",
                                               "confirmed", "2024-01-01", "x")]
                      ELSE IF c = 2
                      THEN [listed |-> "completed",
                            detail |-> Payload("completed", "m", "no_answer",
                                               "", "", "")]
                      ELSE [listed |-> "in_progress",
                            detail |-> Payload("in_progress", "m", "", "", "", "")]]
    /\ notify = [pc |-> "idle", queue |-> <<>>]
    /\ emails = [c \in CallIds |-> [confirmation |-> 0, wait |-> 0]]
    /\ job_result = [c \in CallIds |-> "none"]
    /\ tick_fetched = {}
    /\ tick_sent = {}
    /\ cache_at_begin = {}
    /\ requests = 0

(***************************************************************************)
(* csv_utils.py under concurrency.  update_customer and add_customer read  *)
(* the whole file, change the list they read and write the whole file      *)
(* back.  Both file accesses are awaited (asyncio.to_thread), so another   *)
(* task of the event loop may run between the read and the write.          *)
(* store_ops holds, for each task, the call it makes, the file as the      *)
(* call read it, and what the call returned.                               *)
(***************************************************************************)
StoreTasks == {1, 2}

\* The calls a task may make: an update of a stored column or of a flow
\* column of any customer id, or the addition of a customer under an id
\* no other call uses.
StoreCalls(task) ==
    {[fn |-> "update_customer", customer_id |-> id, updates |-> u] :
        id \in CustomerIds, u \in {[email |-> "x"], [status |-> "called"]}}
    \cup
    {[fn |-> "add_customer", customer_id |-> MaxCustomers + task,
      updates |-> EmptyDict]}

EmptyFile == [header |-> CSV_COLUMNS, rows |-> <<>>]

\* customers = await read_customers(); update_customer returns False here
\* when no record has the id.
StoreOpRead ==
    /\ UNCHANGED scanVars
    /\ UNCHANGED notifyVars
    /\ UNCHANGED <<wait, api, sched>>
    /\ \E task \in DOMAIN store_ops :
          /\ store_ops[task].pc = "called"
          /\ LET call == store_ops[task].call
             IN  IF /\ call.fn = "update_customer"
                    /\ IndexOfId(read_customers(csv_file), call.customer_id) = 0
                 THEN store_ops' = [store_ops EXCEPT ![task].pc = "returned",
                                                     ![task].file = csv_file,
                                                     ![task].result = FALSE]
                 ELSE store_ops' = [store_ops EXCEPT ![task].pc = "read",
                                                     ![task].file = csv_file]

\* await write_customers(customers): the list the call read, with the
\* call's change, replaces the file.
StoreOpWrite ==
    /\ UNCHANGED notifyVars
    /\ UNCHANGED <<wait, api, sched>>
    /\ \E task \in DOMAIN store_ops :
          /\ store_ops[task].pc = "read"
          /\ LET call == store_ops[task].call
                 read == store_ops[task].file
             IN  csv_file' =
                     IF call.fn = "update_customer"
                     THEN update_customer(read, call.customer_id, call.updates)
                     ELSE add_customer(read, "n", "m", "e", <<>>,
                                       call.customer_id, "", 0, now).file
          /\ store_ops' = [store_ops EXCEPT ![task].pc = "returned",
                                            ![task].result = TRUE]
    /\ UNCHANGED <<now, scan, posts, triggered, tick_start, no_show_seen,
                   arrival_seen, prev_failed, recovery_calls>>

InitStoreOps ==
    \E calls \in [StoreTasks -> UNION {StoreCalls(task) : task \in StoreTasks}] :
        /\ \A task \in StoreTasks : calls[task] \in StoreCalls(task)
        /\ store_ops = [task \in StoreTasks |->
                           [pc |-> "called", call |-> calls[task],
                            file |-> EmptyFile, result |-> FALSE]]

(***************************************************************************)
(* client_handler.py: the triggers called directly, by any caller, for     *)
(* any customer id and on any store.                                       *)
(***************************************************************************)
TriggerFns == {"trigger_call", "trigger_order_booking_call",
               "trigger_arrival_confirmation_call",
               "trigger_missed_customer_recovery_call"}

\* The result of one call of the trigger named fn; trigger_call itself is
\* called with the flow order_booking.
Trigger(fn, f, customer_id, resp, t) ==
    CASE fn = "trigger_order_booking_call" ->
             trigger_order_booking_call(f, customer_id, resp, t)
      [] fn = "trigger_arrival_confirmation_call" ->
             trigger_arrival_confirmation_call(f, customer_id, resp, t)
      [] fn = "trigger_missed_customer_recovery_call" ->
             trigger_missed_customer_recovery_call(f, customer_id, resp, t)
      [] OTHER -> trigger_call(f, customer_id, "order_booking", resp, t)

CallTrigger ==
    /\ UNCHANGED <<notifyVars, wait, sched, store_ops>>
    /\ \E fn \in TriggerFns, customer_id \in RequestIds \ {0},
          resp \in ProviderResponses :
          LET result == Trigger(fn, csv_file, customer_id, resp, now)
          IN  /\ csv_file' = result.file
              /\ api' = [op |-> "trigger", fn |-> fn,
                         customer_id |-> customer_id, resp |-> resp,
                         before |-> csv_file, success |-> result.success,
                         error |-> result.error, posts |-> result.posts]
    /\ UNCHANGED <<now, scan, posts, triggered, tick_start, no_show_seen,
                   arrival_seen, prev_failed, recovery_calls>>

\* The stores a trigger may find: records in each status, with and without
\* a mobile number, in a file with the flow columns or in one
\* write_customers left.
TriggerProfiles ==
    FlowProfiles
    \cup {Profile("", "new", <<>>, "false", <<>>),
          Profile("", "no_show", isoformat(0 - 40), "false", isoformat(0 - 30))}

InitTrigger ==
    /\ \E n \in 0..MaxCustomers :
          \E ps \in [1..n -> TriggerProfiles] :
              \/ csv_file = [header |-> CSV_COLUMNS \cup FlowColumns,
                             rows   |-> [i \in 1..n |-> Row(i, ps[i])]]
              \/ csv_file = write_customers([i \in 1..n |-> Row(i, ps[i])])
    /\ now = 0
    /\ scan = [pc |-> "idle", queue |-> <<>>, tick |-> 0, aborted |-> FALSE]
    /\ posts = <<>>
    /\ triggered = {}
    /\ tick_start = <<>>
    /\ arrival_seen = <<>>
    /\ no_show_seen = <<>>
    /\ prev_failed = {}
    /\ recovery_calls = NoRecoveryCalls

(***************************************************************************)
(* csv_utils.py: update_customer called directly.                          *)
(***************************************************************************)
\* The updates the callers of update_customer pass (client_handler.py),
\* and one of a column of CSV_COLUMNS.
UpdateDicts ==
    {[last_call_time |-> isoformat(0)],
     [status |-> "called"],
     [status |-> "order_confirmed", order_details |-> "o",
      expected_arrival_time |-> isoformat(60)],
     [arrival_confirmed |-> "true", status |-> "arrived"],
     [email |-> "x"]}

UpdateCustomer ==
    /\ UNCHANGED <<notifyVars, wait, sched, store_ops>>
    /\ \E customer_id \in RequestIds \ {0}, updates \in UpdateDicts :
          /\ csv_file' = update_customer(csv_file, customer_id, updates)
          /\ api' = [op |-> "update_customer", customer_id |-> customer_id,
                     updates |-> updates, before |-> csv_file,
                     result |-> IndexOfId(read_customers(csv_file),
                                          customer_id) # 0]
    /\ UNCHANGED <<now, scan, posts, triggered, tick_start, no_show_seen,
                   arrival_seen, prev_failed, recovery_calls>>

(***************************************************************************)
(* Specifications.                                                         *)
(*   Spec:       the scan job over a store whose I/O never fails.          *)
(*   FaultSpec:  the scan job over a store whose I/O may raise.            *)
(*   NotifySpec: the notification job and the detail endpoint.             *)
(*   WaitSpec:   one call of wait_for_call_completion and its caller.      *)
(*   WebhookSpec: webhook outcomes applied to a store, one after another.  *)
(*   FlowSpec:   the scan job together with the webhook handler, the       *)
(*               manual trigger and POST /customer.                        *)
(*   StoreSpec:  add_customer and get_customer_by_id called directly.      *)
(*   EmailSpec:  send_reservation_email applied to any payload.            *)
(*   AdapterSpec: the call-provider adapter applied to any answer.         *)
(*   SchedulerSpec: both jobs under the scheduler, with skipped runs and   *)
(*               stop_scheduler.                                           *)
(*   RaceSpec:   two store operations of concurrent tasks, interleaved.    *)
(*   TriggerSpec: the triggers called directly, on any store.              *)
(*   GapSpec:    the scan job over the ticks of half an hour.              *)
(*   UpdateSpec: update_customer called directly.                          *)
(*   CreateSpec: POST /customer, one request after another.                *)
(***************************************************************************)
IdleNotify ==
    /\ sent_emails_cache = {}
    /\ provider = [c \in CallIds |->
                      [listed |-> "in_progress",
                       detail |-> Payload("in_progress", "m", "", "", "", "")]]
    /\ notify = [pc |-> "idle", queue |-> <<>>]
    /\ emails = [c \in CallIds |-> [confirmation |-> 0, wait |-> 0]]
    /\ job_result = [c \in CallIds |-> "none"]
    /\ tick_fetched = {}
    /\ tick_sent = {}
    /\ cache_at_begin = {}
    /\ requests = 0

IdleScan ==
    /\ csv_file = [header |-> CSV_COLUMNS,
                   rows   |-> <<BaseRow(1, "m", "e")>>]
    /\ now = 0
    /\ scan = [pc |-> "idle", queue |-> <<>>, tick |-> 0, aborted |-> FALSE]
    /\ posts = <<>>
    /\ triggered = {}
    /\ tick_start = <<>>
    /\ arrival_seen = <<>>
    /\ no_show_seen = <<>>
    /\ prev_failed = {}
    /\ recovery_calls = NoRecoveryCalls

Init == InitScan /\ IdleNotify /\ IdleApi

Next ==
    \/ ScanBegin
    \/ ScanNewStep
    \/ ScanArrivalQuery
    \/ ScanArrivalStep
    \/ ScanNoShowQuery
    \/ ScanNoShowStep
    \/ ScanEnd

Spec == Init /\ [][Next]_vars

FaultNext == Next \/ ScanStoreError

FaultSpec == Init /\ [][FaultNext]_vars

NotifyInit == InitNotify /\ IdleScan /\ IdleApi

NotifyNext == NotifyBegin \/ NotifyStep \/ NotifyEnd \/ ApiGetCallDetail

NotifySpec == NotifyInit /\ [][NotifyNext]_vars

WebhookNext == HandleCallWebhook

FlowInit == InitFlow /\ IdleNotify /\ IdleApi

WebhookSpec == FlowInit /\ [][WebhookNext]_vars

\* One request reaches a handler at some point of the scan job's run.
FlowWebhook == api.op = "none" /\ HandleCallWebhook

FlowCreate == api.op = "none" /\ CreateCustomer

FlowTrigger == api.op = "none" /\ ManualTrigger

FlowNext == Next \/ FlowWebhook \/ FlowCreate \/ FlowTrigger

FlowSpec == FlowInit /\ [][FlowNext]_vars

WaitInit ==
    /\ InitWait
    /\ api = NoRequest
    /\ sched = StartedScheduler
    /\ store_ops = NoStoreOps
    /\ IdleScan
    /\ IdleNotify

WaitNext == WaitBegin \/ WaitIterate \/ WaitReceive

WaitSpec == WaitInit /\ [][WaitNext]_vars

\* send_reservation_email is applied once to each input.
EmailNext == api.op = "none" /\ SendReservationEmail

EmailInit == IdleScan /\ IdleNotify /\ IdleApi

EmailSpec == EmailInit /\ [][EmailNext]_vars

\* Runs are started only while the scheduler is running.
SchedScanBegin == sched.state = "running" /\ ScanBegin

SchedNotifyBegin == sched.state = "running" /\ NotifyBegin

SchedulerInit == InitSched /\ IdleApi

SchedulerNext ==
    \/ SchedScanBegin
    \/ ScanNewStep
    \/ ScanArrivalQuery
    \/ ScanArrivalStep
    \/ ScanNoShowQuery
    \/ ScanNoShowStep
    \/ ScanEnd
    \/ SchedNotifyBegin
    \/ NotifyStep
    \/ NotifyEnd
    \/ IntervalElapses
    \/ StopScheduler

SchedulerSpec == SchedulerInit /\ [][SchedulerNext]_vars

\* An adapter operation is applied once to each input.
AdapterNext == api.op = "none" /\ CallAdapter

AdapterSpec == EmailInit /\ [][AdapterNext]_vars

StoreNext == AddCustomer \/ GetCustomerById

StoreSpec == FlowInit /\ [][StoreNext]_vars

RaceInit ==
    /\ InitFlow
    /\ IdleNotify
    /\ IdleWait
    /\ api = NoRequest
    /\ sched = StartedScheduler
    /\ InitStoreOps

RaceNext == StoreOpRead \/ StoreOpWrite

RaceSpec == RaceInit /\ [][RaceNext]_vars

\* A trigger is applied once to each store and customer id.
TriggerNext == api.op = "none" /\ CallTrigger

TriggerInit == InitTrigger /\ IdleNotify /\ IdleApi

TriggerSpec == TriggerInit /\ [][TriggerNext]_vars

\* The scan job over the ticks of half an hour and more, on stores that
\* hold a no_show customer.
GapProfiles ==
    {Profile("m", "no_show", isoformat(0 - 40), "false", l) :
        l \in {<<>>, <<"bad">>, isoformat(0 - 10), isoformat(0 - 30)}}
    \cup {Profile("m", "new", <<>>, "false", <<>>)}

InitGap ==
    /\ \E n \in 1..MaxCustomers :
          \E ps \in [1..n -> GapProfiles] :
              \/ csv_file = [header |-> CSV_COLUMNS \cup FlowColumns,
                             rows   |-> [i \in 1..n |-> Row(i, ps[i])]]
              \/ csv_file = write_customers([i \in 1..n |-> Row(i, ps[i])])
    /\ now = 0
    /\ scan = [pc |-> "idle", queue |-> <<>>, tick |-> 0, aborted |-> FALSE]
    /\ posts = <<>>
    /\ triggered = {}
    /\ tick_start = <<>>
    /\ arrival_seen = <<>>
    /\ no_show_seen = <<>>
    /\ prev_failed = {}
    /\ recovery_calls = NoRecoveryCalls

GapScanBegin == ScanBeginWithin(GapTicks)

GapNext ==
    \/ GapScanBegin
    \/ ScanNewStep
    \/ ScanArrivalQuery
    \/ ScanArrivalStep
    \/ ScanNoShowQuery
    \/ ScanNoShowStep
    \/ ScanEnd

GapInit == InitGap /\ IdleNotify /\ IdleApi

GapSpec == GapInit /\ [][GapNext]_vars

\* update_customer is applied once to each store, id and update.
UpdateNext == api.op = "none" /\ UpdateCustomer

UpdateSpec == FlowInit /\ [][UpdateNext]_vars

\* POST /customer is served, one request after another.
CreateNext == CreateCustomer

CreateSpec == FlowInit /\ [][CreateNext]_vars

(***************************************************************************)
(* Claims about the notification job (NotifySpec).                         *)
(***************************************************************************)
SuccessResults == {"Reservation confirmation sent", "Wait email sent"}

TransientResults == {"detail_failed", "exception", "None"}

\* C1: a call id that was in the dedup cache when a run of the
\* notification job began is skipped by that run: the run neither fetches
\* its detail nor passes it to send_reservation_email.
C1_DedupSkips ==
    \A c \in CallIds :
        Str(c) \in cache_at_begin => c \notin (tick_fetched \cup tick_sent)

C1_Witness ==
    \E c \in CallIds :
        /\ Str(c) \in cache_at_begin
        /\ job_result[c] = "dedup_skip"
        /\ emails[c].confirmation = 1

\* C2: whenever the job's last look at a call ended with an email sent, or
\* with the call found not to be an actionable reservation (outcome not
\* reservation_confirmed, or reservation status not confirmed), the call
\* id is in the dedup cache.
C2_NonActionableMarked ==
    \A c \in CallIds :
        job_result[c] \in SuccessResults
                          \cup {"No reservation confirmed in this call",
                                "Reservation not confirmed"}
            => Str(c) \in sent_emails_cache

\* The job looks at call c in this step.
JobLooksAt(c) ==
    /\ notify.pc = "loop"
    /\ notify.queue # <<>>
    /\ Head(notify.queue) = c
    /\ notify'.queue = Tail(notify.queue)

\* C3: a call whose last processing by the job failed transiently
\* (detail fetch failed, exception, SMTP failure) is not in the dedup
\* cache, and the next time the job looks at it the call is processed
\* rather than skipped.
C3_TransientNotMarked ==
    /\ [](\A c \in CallIds :
            job_result[c] \in TransientResults => Str(c) \notin sent_emails_cache)
    /\ [][\A c \in CallIds :
            JobLooksAt(c) /\ job_result[c] \in TransientResults
                => job_result'[c] # "dedup_skip"]_vars

C3_Witness ==
    \E c \in CallIds :
        /\ job_result[c] = "None"
        /\ c \in tick_sent
        /\ Str(c) \notin sent_emails_cache
        /\ notify.pc = "idle"

\* C4: at most one reservation confirmation email is sent for a call id,
\* whichever of the notification job and the detail endpoint sends it.
C4_AtMostOneConfirmation ==
    \A c \in CallIds : emails[c].confirmation <= 1

(***************************************************************************)
(* Claims about the scan job (Spec, FaultSpec).                            *)
(***************************************************************************)
TickDone == scan.pc = "idle" /\ scan.tick > 0

PostsFor(customer_id) ==
    {i \in 1..Len(posts) : posts[i].customer_id = customer_id}

PastArrival(customer, t) ==
    /\ IsIso(Get(customer, "expected_arrival_time", <<>>))
    /\ fromisoformat(Get(customer, "expected_arrival_time", <<>>)) < t

\* C5: within one scan tick no customer has more than one call placed.
C5_OneCallPerTick ==
    \A id \in CustomerIds : Cardinality(PostsFor(id)) <= 1

C5_Witness ==
    /\ TickDone
    /\ \E i \in DOMAIN tick_start :
          /\ Get(tick_start[i], "status", "") = "new"
          /\ PastArrival(tick_start[i], now)
          /\ \E j \in PostsFor(tick_start[i]["customer_id"]) :
                posts[j].call_flow = "order_booking" /\ posts[j].success

\* C6: every customer whose stored status is new when a tick begins has
\* the order_booking trigger invoked in that tick, and no other trigger.
C6_NewGetsOrderBookingOnly ==
    \A i \in DOMAIN tick_start :
        Get(tick_start[i], "status", "") = "new" =>
            /\ TickDone =>
                  <<tick_start[i]["customer_id"], "order_booking">> \in triggered
            /\ \A t \in triggered :
                  t[1] = tick_start[i]["customer_id"] => t[2] = "order_booking"

C6_Witness ==
    /\ TickDone
    /\ \E i, j \in DOMAIN tick_start :
          /\ i # j
          /\ Get(tick_start[i], "status", "") = "new"
          /\ Get(tick_start[j], "status", "") = "new"
          /\ PastArrival(tick_start[j], now)
          /\ <<tick_start[i]["customer_id"], "order_booking">> \in triggered
          /\ <<tick_start[j]["customer_id"], "order_booking">> \in triggered

\* C7: an arrival_confirmation trigger is invoked only for a customer
\* whose record, as stored when the tick's arrival query ran, has
\* arrival_confirmed not true, an expected_arrival_time in the past and
\* status order_confirmed or called; and never for a customer whose
\* stored arrival_confirmed is true.
C7_ArrivalOnlyWhenDue ==
    \A t \in triggered :
        t[2] = "arrival_confirmation" =>
            LET seen == arrival_seen[IndexOfId(arrival_seen, t[1])]
                cur  == read_customers(csv_file)[
                            IndexOfId(read_customers(csv_file), t[1])]
            IN  /\ IndexOfId(arrival_seen, t[1]) # 0
                /\ Get(seen, "arrival_confirmed", "false")
                       \notin {"true", "True", "TRUE"}
                /\ Get(cur, "arrival_confirmed", "false")
                       \notin {"true", "True", "TRUE"}
                /\ Get(seen, "status", "") \in {"order_confirmed", "called"}
                /\ "expected_arrival_time" \in DOMAIN seen
                /\ PastArrival(seen, now)

C7_Witness ==
    /\ TickDone
    /\ \E i, j \in DOMAIN arrival_seen :
          /\ <<arrival_seen[i]["customer_id"], "arrival_confirmation">> \in triggered
          /\ Get(arrival_seen[j], "status", "") = "order_confirmed"
          /\ Get(arrival_seen[j], "arrival_confirmed", "false") = "True"
          /\ PastArrival(arrival_seen[j], now)
          /\ <<arrival_seen[j]["customer_id"], "arrival_confirmation">>
                 \notin triggered

IsNoShow(customer) == Get(customer, "status", "") = "no_show"

Recovered(customer) ==
    <<customer["customer_id"], "missed_customer_recovery">> \in triggered

\* last_call_time is at least RecallGapMinutes old at wall clock t.
StaleCall(customer, t) ==
    /\ IsIso(Get(customer, "last_call_time", <<>>))
    /\ t - fromisoformat(Get(customer, "last_call_time", <<>>)) >= RecallGapMinutes

C9_FailedPlacementRetried ==
    (TickDone /\ scan.tick >= 2) => prev_failed \subseteq triggered

\* The three subsets of the scan job, on a stored record at wall clock t.
EligibleAtStart(customer, t) ==
    \/ Get(customer, "status", "") = "new"
    \/ /\ Get(customer, "status", "") \in {"order_confirmed", "called"}
       /\ Get(customer, "arrival_confirmed", "false") \notin {"true", "True", "TRUE"}
       /\ PastArrival(customer, t)
    \/ /\ IsNoShow(customer)
       /\ \/ Get(customer, "last_call_time", <<>>) = <<>>
          \/ StaleCall(customer, t)

\* C10: whatever fails while one customer is processed, every customer
\* eligible when the tick began has a trigger invoked before the tick
\* ends.
C10_BatchNotAborted ==
    TickDone =>
        \A i \in DOMAIN tick_start :
            EligibleAtStart(tick_start[i], now) =>
                \E t \in triggered : t[1] = tick_start[i]["customer_id"]

(***************************************************************************)
(* Claims about the completion wait (WaitSpec).                            *)
(***************************************************************************)
WaitEnded == wait.pc \in {"returned", "raised", "done"}

\* C11: with a provider that reports in_progress for the first k polls and
\* completed afterwards, a wait that did not run into its timeout returns
\* (True, detail) after exactly k + 1 polls.
C11_ReturnsAtFirstCompleted ==
    (WaitEnded /\ wait.script.k # Never /\ wait.script.fails = 0
               /\ wait.exit # "timeout")
        => /\ wait.ret = [tuple |-> TRUE, items |-> <<"True", "completed">>]
           /\ wait.polls = wait.script.k + 1

\* C12: a wait that ends by timeout returns a pair whose first item is
\* False, and the caller's `completed, details = ...` then yields
\* completed = False without an error.
C12_TimeoutIsPair ==
    (WaitEnded /\ wait.exit = "timeout")
        => /\ wait.ret.tuple
           /\ wait.ret.items[1] = "False"
           /\ wait.pc = "done" =>
                 wait.caller.error = "" /\ wait.caller.completed = "False"

\* C13: a wait whose provider fails a poll still ends only because a poll
\* reported completed or because the timeout was exceeded.
C13_FailedPollContinues ==
    (WaitEnded /\ wait.script.fails > 0) => wait.exit \in {"completed", "timeout"}

(***************************************************************************)
(* Claims about the customer lifecycle (FlowSpec, WebhookSpec, Spec).      *)
(***************************************************************************)
Rank(status) ==
    CASE status = "new" -> 0
      [] status \in {"called", "order_confirmed"} -> 1
      [] status \in {"arrived", "no_show"} -> 2
      [] status = "resolved" -> 3
      [] OTHER -> 0 - 1

\* A move along new -> called/order_confirmed -> arrived | no_show ->
\* resolved, or the one backward move no_show -> order_confirmed.
LifecycleMove(from, to) ==
    \/ Rank(from) >= 0 /\ Rank(to) >= Rank(from)
    \/ from = "no_show" /\ to = "order_confirmed"

\* C14: whenever the stored status of a customer changes, the change is a
\* move along the lifecycle or the move no_show -> order_confirmed.
C14_LifecycleOnly ==
    [][\A id \in CustomerIds :
           (/\ StoredStatus(csv_file, id) # NoneValue
            /\ StoredStatus(csv_file', id) # StoredStatus(csv_file, id))
               => LifecycleMove(StoredStatus(csv_file, id),
                                StoredStatus(csv_file', id))]_vars

\* The record of the customer the last webhook named.
WebhookRecord ==
    read_customers(csv_file)[IndexOfId(read_customers(csv_file),
                                       api.data.customer_id)]

\* The lower-cased discriminator of an outcome, "" when it is missing.
Discriminator(result, key) == Lower(Get(result, key, ""))

\* C15: after handle_call_webhook reported success for a stored customer,
\* the customer's record carries what the outcome table gives for the
\* flow and the outcome.
C15_OutcomeTable ==
    (api.op = "webhook" /\ api.success) =>
        LET result == api.data.result
            flow == api.data.flow
            record == WebhookRecord
            Has(col, value) == Get(record, col, NoneValue) = value
        IN  /\ flow = "order_booking" =>
                  /\ Has("status", "order_confirmed")
                  /\ "order_details" \in DOMAIN result =>
                        Has("order_details", result["order_details"])
                  /\ "expected_arrival_time" \in DOMAIN result =>
                        "expected_arrival_time" \in DOMAIN record
                        /\ record["expected_arrival_time"]
                               = result["expected_arrival_time"]
            /\ flow = "arrival_confirmation" =>
                  /\ Discriminator(result, "arrival_status") = "arrived" =>
                        Has("status", "arrived") /\ Has("arrival_confirmed", "true")
                  /\ Discriminator(result, "arrival_status")
                         \in {"not coming", "cancel"} => Has("status", "no_show")
            /\ flow = "missed_customer_recovery" =>
                  /\ Discriminator(result, "action") = "reschedule" =>
                        /\ Has("status", "order_confirmed")
                        /\ "new_arrival_time" \in DOMAIN result =>
                              "expected_arrival_time" \in DOMAIN record
                              /\ record["expected_arrival_time"]
                                     = result["new_arrival_time"]
                  /\ Discriminator(result, "action") = "takeaway" =>
                        /\ Has("status", "resolved")
                        /\ "takeaway_order" \in DOMAIN result =>
                              Has("order_details", result["takeaway_order"])
                  /\ Discriminator(result, "action") = "cancel" =>
                        Has("status", "resolved")

\* The outcome names no recognised discriminator value, or the flow is
\* not one of the three.
Unrecognised(data) ==
    \/ /\ data.flow = "arrival_confirmation"
       /\ Discriminator(data.result, "arrival_status")
              \notin {"arrived", "on the way", "not coming", "cancel"}
    \/ /\ data.flow = "missed_customer_recovery"
       /\ Discriminator(data.result, "action")
              \notin {"reschedule", "takeaway", "cancel"}
    \/ data.flow \notin {"order_booking", "arrival_confirmation",
                         "missed_customer_recovery"}

\* C16: applying to a stored customer an outcome whose discriminator is
\* missing or unrecognised, or whose flow is unknown, leaves the store as
\* it was and reports success.
C16_UnknownIsNoOp ==
    [][(/\ api'.op = "webhook"
        /\ StoredStatus(csv_file, api'.data.customer_id) # NoneValue
        /\ Unrecognised(api'.data))
           => csv_file' = csv_file /\ api'.success]_vars

\* C17: applying to the store the outcome that was applied last leaves
\* the store as the first application left it.
C17_Idempotent ==
    [][(api.op = "webhook" /\ api'.op = "webhook" /\ api'.data = api.data)
           => csv_file' = csv_file]_vars

C17_Witness ==
    /\ api.op = "webhook"
    /\ api.repeat
    /\ api.success
    /\ api.data.flow = "missed_customer_recovery"
    /\ Discriminator(api.data.result, "action") = "takeaway"
    /\ csv_file.header = CSV_COLUMNS

\* C18: the manual trigger answers a request for a stored customer with
\* the flow the table gives for the stored status, and rejects a status
\* outside the table (an error answer, no flow chosen); every trigger the
\* scan job invokes is the one the table gives for the status of the
\* record the job read.
C18_FlowByStatus ==
    /\ api.op = "trigger_call" /\ api.stored # NoneValue =>
          /\ api.flow = FlowForStatus(api.stored)
          /\ FlowForStatus(api.stored) = "none" => api.status_code >= 400
    /\ \A t \in triggered :
          LET seen == IF t[2] = "order_booking" THEN tick_start
                      ELSE IF t[2] = "arrival_confirmation" THEN arrival_seen
                      ELSE no_show_seen
          IN  /\ IndexOfId(seen, t[1]) # 0
              /\ FlowForStatus(Get(seen[IndexOfId(seen, t[1])], "status", ""))
                     = t[2]

\* C19: a customer for whom a call was placed successfully in the current
\* tick has the time of the placement as stored last_call_time.
C19_LastCallTimeStamped ==
    \A i \in 1..Len(posts) :
        posts[i].success =>
            LET j == IndexOfId(read_customers(csv_file), posts[i].customer_id)
            IN  /\ j # 0
                /\ Get(read_customers(csv_file)[j], "last_call_time", <<>>)
                       = isoformat(now)

\* C20: after POST /customer stored a customer, the store has a record of
\* that id with status new, and a scan tick that found the record when it
\* began has invoked order_booking for it when it ends.
C20_AddedIsNew ==
    api.op = "create_customer" =>
        /\ \E i \in 1..Len(read_customers(csv_file)) :
              /\ read_customers(csv_file)[i]["customer_id"] = api.customer_id
              /\ Get(read_customers(csv_file)[i], "status", "") = "new"
        /\ (TickDone /\ IndexOfId(tick_start, api.customer_id) # 0) =>
              <<api.customer_id, "order_booking">> \in triggered

(***************************************************************************)
(* Claims about the store used directly (StoreSpec).                       *)
(***************************************************************************)
\* C21: after any sequence of add_customer calls no two records of the
\* store share a customer_id.
C21_UniqueIds ==
    \A i, j \in 1..Len(read_customers(csv_file)) :
        i # j => read_customers(csv_file)[i]["customer_id"]
                 # read_customers(csv_file)[j]["customer_id"]

\* C22: get_customer_by_id(X) right after add_customer returned X yields
\* the six values just added, whatever the store held before.
C22_RoundTrip ==
    [][(/\ api.op = "add_customer"
        /\ api'.op = "get_customer_by_id"
        /\ api'.customer_id = api.customer_id)
       => api'.result = api.record]_vars

(***************************************************************************)
(* Claims about the email path called directly (EmailSpec).                *)
(***************************************************************************)
Actionable(outcome) ==
    /\ outcome.found
    /\ outcome.status = "confirmed"
    /\ outcome.date # ""
    /\ outcome.time # ""
    /\ outcome.number_of_people # ""

EmailedCompleted ==
    /\ api.op = "send_reservation_email"
    /\ api.call_data.status = "completed"

\* C23: for a completed call a reservation confirmation is mailed only if
\* the outcome has status confirmed and a non-empty date, time and
\* number_of_people; otherwise no email is sent for the call.
C23_EmailOnlyIfActionable ==
    EmailedCompleted => (api.kind # "none" => /\ api.kind = "confirmation"
                                              /\ Actionable(api.outcome))

C23_Witness ==
    /\ EmailedCompleted
    /\ api.kind = "confirmation"
    /\ Actionable(api.outcome)
    /\ api.given = ""

\* The payload carries reservation_details {date, time, number_of_people,
\* status: confirmed} at callOutcomesData.reservation_details.
CarriesReservation(call_data) ==
    /\ call_data.status = "completed"
    /\ call_data.rd_status = "confirmed"
    /\ call_data.date # ""
    /\ call_data.time # ""
    /\ call_data.number_of_people # ""

\* The outcome is the payload's four values and nothing else supplied one.
YieldsPayloadValues(outcome, call_data) ==
    /\ outcome.found
    /\ outcome.status = "confirmed"
    /\ outcome.date = call_data.date
    /\ outcome.time = call_data.time
    /\ outcome.number_of_people = call_data.number_of_people
    /\ outcome.from_arguments = {}

\* C24 as stated: every completed payload that carries the four values
\* at the nested path yields exactly them, with no fallback.
C24_StructuralAsStated ==
    (api.op = "send_reservation_email" /\ CarriesReservation(api.call_data))
        => YieldsPayloadValues(api.outcome, api.call_data)

\* C24 amended: ... when callOutcomesData.outcome is reservation_confirmed.
C24_Structural ==
    (/\ api.op = "send_reservation_email"
     /\ CarriesReservation(api.call_data)
     /\ api.call_data.outcome = "reservation_confirmed")
        => YieldsPayloadValues(api.outcome, api.call_data)

C24_Witness ==
    /\ api.op = "send_reservation_email"
    /\ CarriesReservation(api.call_data)
    /\ api.call_data.outcome = "reservation_confirmed"
    /\ api.given = "given"
    /\ api.outcome.date = "2024-01-01"
    /\ api.kind = "confirmation"

(***************************************************************************)
(* Claims about the dedup cache and the scheduler.                         *)
(***************************************************************************)
\* C25: the dedup cache is monotone: no step of the process removes a call
\* id from sent_emails_cache.
C25_CacheMonotone == [][sent_emails_cache \subseteq sent_emails_cache']_vars

\* A later tick runs with the ids of an earlier tick still in the cache and
\* has added one of its own.
C25_Witness ==
    /\ notify.pc = "loop"
    /\ cache_at_begin # {}
    /\ cache_at_begin \subseteq sent_emails_cache
    /\ sent_emails_cache # cache_at_begin

C27_TickRunsToEnd == sched.state = "stopped" => sched.unrecorded = {}

(***************************************************************************)
(* Claims about the flow engine's paths (FlowSpec).                        *)
(***************************************************************************)
OutcomeStates == {"order_confirmed", "arrived", "no_show", "resolved"}

StatusAt(f, i) == Get(read_customers(f)[i], "status", "")

\* Record i gets an outcome-driven status in this step.
OutcomeWritten(i) ==
    /\ StatusAt(csv_file', i) \in OutcomeStates
    /\ \/ i > Len(read_customers(csv_file))
       \/ StatusAt(csv_file, i) # StatusAt(csv_file', i)

AdapterFailure ==
    \/ api.token = ""
    \/ api.env.kind = "transport_error"
    \/ api.env.status_code >= 400
    \/ api.env.json # "object"
    \/ Get(api.env.object, "status", NoneValue) # "success"

ScanFlowFor(f, customer_id, t) ==
    LET i == IndexOfId(read_customers(f), customer_id)
        customer == read_customers(f)[i]
        due == get_customers_for_arrival_check(f, t)
    IN  IF i = 0 THEN "none"
        ELSE IF Get(customer, "status", "") = "new" THEN "order_booking"
        ELSE IF /\ \E k \in 1..Len(due) : due[k] = customer
                /\ ArrivalEligible(customer)
        THEN "arrival_confirmation"
        ELSE IF Get(customer, "status", "") = "no_show" /\ should_call(customer, t)
        THEN "missed_customer_recovery"
        ELSE "none"

\* C30: the manual trigger selects for a customer the flow, or the
\* rejection, that a scan tick would select for the customer in the same
\* stored state.
C30_ManualAsScan ==
    [][(api.op = "none" /\ api'.op = "trigger_call")
          => api'.flow = ScanFlowFor(csv_file, api'.customer_id, now)]_vars

(***************************************************************************)
(* Claims about concurrent store operations (RaceSpec).                    *)
(***************************************************************************)
BothReturned == \A task \in StoreTasks : store_ops[task].pc = "returned"

\* The two calls are not updates of one and the same customer.
DifferentTargets ==
    ~(/\ \A task \in StoreTasks : store_ops[task].call.fn = "update_customer"
      /\ store_ops[1].call.customer_id = store_ops[2].call.customer_id)

\* What the call changed is in the file f: the added record, or each
\* updated value of the record the update found.
EffectPresent(task, f) ==
    LET call == store_ops[task].call
        i == IndexOfId(read_customers(f), call.customer_id)
    IN  IF call.fn = "add_customer" THEN i # 0
        ELSE store_ops[task].result =>
                /\ i # 0
                /\ \A k \in DOMAIN call.updates :
                      Get(read_customers(f)[i], k, NoneValue) = call.updates[k]

\* C31: when an update of one customer interleaves with an update of
\* another customer, or with add_customer, the effects of both calls are
\* in the store once both have returned.
C31_DisjointUpdatesKept ==
    (BothReturned /\ DifferentTargets)
        => \A task \in StoreTasks : EffectPresent(task, csv_file)

(***************************************************************************)
(* Further claims about the completion wait (WaitSpec).                    *)
(***************************************************************************)
\* C32: a wait whose provider never reports completed ends by returning
\* after its elapsed time has exceeded timeout_seconds, and in no other
\* way.
C32_EndsByTimeout ==
    (WaitEnded /\ wait.script.k = Never)
        => /\ wait.exit = "timeout"
           /\ wait.pc # "raised"
           /\ wait.clock - wait.start > wait.timeout_seconds

(***************************************************************************)
(* Further claims about the scan job and the triggers.                     *)
(***************************************************************************)
\* C33: after an order_booking placement of the current tick the stored
\* status of the customer is called when the placement succeeded (so no
\* later tick finds the customer new) and still new when it failed; and a
\* customer whose order_booking placement failed in one tick has
\* order_booking invoked again in the next.
C33_PlacementMovesStatus ==
    /\ \A i \in 1..Len(posts) :
          posts[i].call_flow = "order_booking" =>
              StoredStatus(csv_file, posts[i].customer_id)
                  = IF posts[i].success THEN "called" ELSE "new"
    /\ (TickDone /\ scan.tick >= 2) =>
          \A p \in prev_failed : p[2] = "order_booking" => p \in triggered

\* The status the trigger's test reads: None when the record has no status
\* column.
StatusRead(f, customer_id) ==
    Get(read_customers(f)[IndexOfId(read_customers(f), customer_id)],
        "status", "None")

\* The call of trigger fn for this id on the store f is to be rejected.
RejectCase(fn, f, customer_id) ==
    \/ IndexOfId(read_customers(f), customer_id) = 0
    \/ Get(read_customers(f)[IndexOfId(read_customers(f), customer_id)],
           "mobile", "") = ""
    \/ fn = "trigger_order_booking_call" /\ StatusRead(f, customer_id) # "new"
    \/ /\ fn = "trigger_missed_customer_recovery_call"
       /\ StatusRead(f, customer_id) # "no_show"

\* C34: a trigger that is to be rejected (order booking for a status other
\* than new, recovery for a status other than no_show, any trigger for an
\* unknown customer or one without a mobile number) returns success=false,
\* places no call and leaves the store as it was.
C34_RejectedChangesNothing ==
    (api.op = "trigger" /\ RejectCase(api.fn, api.before, api.customer_id))
        => /\ api.success = FALSE
           /\ api.posts = <<>>
           /\ csv_file = api.before

\* A recovery call was asked for a customer in status order_confirmed whose
\* record carries a last_call_time column, and a bare trigger_call for a
\* customer without a mobile number.
C34_Witness ==
    /\ api.op = "trigger"
    /\ RejectCase(api.fn, api.before, api.customer_id)
    /\ "last_call_time" \in csv_file.header
    /\ \/ /\ api.fn = "trigger_missed_customer_recovery_call"
          /\ StoredStatus(api.before, api.customer_id) = "order_confirmed"
       \/ /\ api.fn = "trigger_call"
          /\ StoredStatus(api.before, api.customer_id) = "new"
    /\ api.resp = "200"

\* C35: after a trigger whose POST failed at the provider, the customer's
\* record is the record of before the call, last_call_time included.
C35_FailedPlacementNoChange ==
    (api.op = "trigger" /\ api.posts # <<>> /\ ~api.success)
        => get_customer_by_id(csv_file, api.customer_id)
               = get_customer_by_id(api.before, api.customer_id)

(***************************************************************************)
(* Claims about the re-call gap over many ticks (GapSpec).                 *)
(***************************************************************************)
\* C36: any two recovery calls the scan job attempts for one customer are
\* at least RecallGapMinutes apart: the ticks of the 25 minutes after an
\* attempt make none for that customer.
C36_RecoveryCallsApart ==
    \A c \in CustomerIds :
        \A t, u \in recovery_calls[c] :
            t < u => u - t >= RecallGapMinutes

\* A recovery call was attempted at the first tick, and the ticks up to
\* RecallGapMinutes later have run without another for that customer.
C36_Witness ==
    /\ TickDone
    /\ now >= RecallGapMinutes
    /\ \E c \in CustomerIds : recovery_calls[c] = {0}

(***************************************************************************)
(* Claims about update_customer called directly (UpdateSpec).              *)
(***************************************************************************)
\* C37: after update_customer(id, updates) returned true,
\* get_customer_by_id(id) yields a record that has the updated value under
\* every key of updates and the old value under every other key; for an
\* unknown id the call returns false and leaves the store as it was.
C37_UpdateRoundTrip ==
    api.op = "update_customer" =>
        IF api.result
        THEN LET new == get_customer_by_id(csv_file, api.customer_id)
                 old == get_customer_by_id(api.before, api.customer_id)
             IN  /\ \A k \in DOMAIN api.updates :
                       k \in DOMAIN new /\ new[k] = api.updates[k]
                 /\ \A k \in (DOMAIN old) \ (DOMAIN api.updates) :
                       k \in DOMAIN new /\ new[k] = old[k]
        ELSE csv_file = api.before

(***************************************************************************)
(* Further claims about the notification job (SchedulerSpec).              *)
(***************************************************************************)
\* The job's look at call c in this step ends in a failed detail fetch or
\* in an exception.
LookFails(c) ==
    /\ notify.pc = "loop"
    /\ notify.queue # <<>>
    /\ Head(notify.queue) = c
    /\ notify' # notify
    /\ notify'.pc # "cancelled"
    /\ job_result'[c] \in {"detail_failed", "exception"}

\* C38: a failure while one completed call is processed does not stop the
\* tick (the tick goes on with the calls that follow, and when it returns
\* every completed call of the list has been looked at); a tick that
\* cannot fetch the call list sends no email and leaves the dedup cache as
\* it was.
C38_FailureDoesNotStopTick ==
    [][/\ \A c \in CallIds :
             LookFails(c) => /\ notify'.pc = "loop"
                             /\ notify'.queue = Tail(notify.queue)
                             /\ sent_emails_cache' = sent_emails_cache
                             /\ emails' = emails
       /\ (notify.pc = "loop" /\ notify'.pc = "idle") =>
             \A c \in CallIds :
                 provider[c].listed = "completed" => job_result[c] # "none"
       /\ (notify.pc = "idle" /\ notify'.pc = "idle") =>
             /\ emails' = emails
             /\ sent_emails_cache' = sent_emails_cache]_vars

\* The look at call 1 failed, and the same tick went on to process call 2.
C38_Witness ==
    /\ job_result[1] \in {"detail_failed", "exception"}
    /\ Str(1) \notin sent_emails_cache
    /\ 1 \notin tick_sent
    /\ 2 \in tick_sent
    /\ Str(2) \in sent_emails_cache
    /\ Str(2) \notin cache_at_begin

(***************************************************************************)
(* Claims about POST /customer (CreateSpec).                               *)
(***************************************************************************)
\* C39: once add_customer has stored the record, POST /customer answers
\* {success: true, customer_id} with the id stored, whatever the automatic
\* call, the wait or the email send raised, and the store is the one
\* add_customer left.
C39_CreateAlwaysAnswers ==
    api.op = "create_customer" =>
        /\ api.status_code = 200
        /\ api.success = TRUE
        /\ api.customer_id = api.stored.customer_id
        /\ csv_file = api.stored.file
        /\ IndexOfId(read_customers(csv_file), api.customer_id) # 0

\* The automatic call failed (TypeError at make_call) for a customer who
\* named no id, and the request was answered with the generated id.
C39_Witness ==
    /\ api.op = "create_customer"
    /\ api.auto_call = "TypeError"
    /\ api.status_code = 200
    /\ Len(read_customers(csv_file)) = 2
    /\ read_customers(csv_file)[2]["customer_id"] = api.customer_id
    /\ read_customers(csv_file)[2]["email"] = ""

(***************************************************************************)
(* Claims about what the notification job marks as handled (NotifySpec).   *)
(***************************************************************************)
\* C40: a call whose id the job put into the dedup cache because an email
\* went out has had its reservation confirmation sent; a wait email (for
\* a call listed as completed whose detail says in_progress) does not
\* mark the call.
C40_SuccessMeansConfirmation ==
    \A c \in CallIds :
        (Str(c) \in sent_emails_cache /\ job_result[c] \in SuccessResults)
            => emails[c].confirmation >= 1

====
